---------------------------- MODULE Spec2Model ----------------------------
(***************************************************************************)
(* A model of sippet's NetworkLayer (src/sippet/transport/network_layer.cc) *)
(* as a state machine.  The network layer owns the channel contexts, the    *)
(* client and server transaction maps and the channel factories, and it     *)
(* talks to one delegate.  Every public method and every observer callback  *)
(* of the class is one action; the private methods are operators on a       *)
(* record holding the mutable members, so that a handler is the composition *)
(* of the calls it makes, in the order of the code.                         *)
(*                                                                          *)
(* The Channel, ChannelFactory, ClientTransaction and ServerTransaction     *)
(* classes are interfaces whose implementations are outside the slice; the  *)
(* model keeps of them only what the network layer observes (return codes,  *)
(* is_connected(), origin(), destination(), id()).                          *)
(***************************************************************************)
EXTENDS Integers, Sequences, FiniteSets, TLC

VARIABLES
    factories_,            \* FactoriesMap: the protocols with a registered factory
    channels_,             \* ChannelsMap: destination -> ChannelContext
    client_transactions_,  \* ClientTransactionsMap: id -> transaction
    server_transactions_,  \* ServerTransactionsMap: id -> transaction
    events,                \* what the running handler called, in call order
    op,                    \* the running handler, its inputs and its return value
    transaction_state,     \* id -> the state machine of the transaction object
                           \* last made for the id (specification TransactionSpec)
    posted_,               \* the tasks posted to the message loop and not yet run
    destroyed,             \* whether ~NetworkLayer has run
    ssl_cert_error_handler_factory_,  \* whether the settings gave a factory
    ssl_cert_error_transactions_,     \* the SSLCertErrorTransaction objects kept
    arguments,             \* the messages the static functions are applied to
    results,               \* what the static functions returned for them
    sip_message,           \* a Message: raw_headers_, parsed_ and typed fields
    now                    \* the clock of the task runner, in milliseconds

vars == <<factories_, channels_, client_transactions_, server_transactions_,
          events, op, transaction_state, posted_, destroyed,
          ssl_cert_error_handler_factory_, ssl_cert_error_transactions_,
          arguments, results, sip_message, now>>

---------------------------------------------------------------------------
(* Bounds of the model.                                                     *)

\* Transactions (client and server together) registered at one time.
MaxTransactions == 2
\* RequestChannel calls not yet matched by a ReleaseChannel.
MaxHolders == 1

---------------------------------------------------------------------------
(* Values.                                                                  *)

kMagicCookie == "z9hG4bK"

Methods == {"INVITE", "ACK", "OPTIONS"}

Hosts == {"10.0.0.1", "10.0.0.2"}
Ports == {5060, 5070}

\* EndPoint(): the empty end point.
EmptyEndPoint == [host |-> "", port |-> 0, protocol |-> ""]

IsEmpty(endpoint) == endpoint.host = ""

\* The destinations the upper layer and the peers address.
UdpPeer == [host |-> "10.0.0.2", port |-> 5070, protocol |-> "UDP"]
TlsPeer == [host |-> "10.0.0.1", port |-> 5060, protocol |-> "TLS"]
Destinations == {UdpPeer, TlsPeer}

Protocols == {"UDP", "TLS"}

\* A branch is a pair <<prefix, rest>>: the string prefix followed by rest.
NoBranch == <<>>

StartsWith(branch, prefix) == branch # NoBranch /\ branch[1] = prefix

NoVia ==
    [present |-> FALSE, protocol |-> "", sent_by |-> [host |-> "", port |-> 0],
     branch |-> NoBranch, received |-> "", rport |-> 0]
NoMessage == [kind |-> "none"]

\* ViaParam: protocol, sent-by, branch, received, rport.
ViaParam(protocol, sent_by, branch) ==
    [present |-> TRUE, protocol |-> protocol, sent_by |-> sent_by,
     branch |-> branch, received |-> "", rport |-> 0]

HasBranch(via) == via.branch # NoBranch
HasReceived(via) == via.received # ""
HasRport(via) == via.rport # 0

\* Channel::origin(): the local end point a connected channel is bound to.
Origin(destination) ==
    [host |-> "192.0.2.1", port |-> 5060, protocol |-> destination.protocol]

\* Error codes (net::Error) that the network layer returns or passes on.
OK == "OK"
ERR_IO_PENDING == "ERR_IO_PENDING"
ERR_UNEXPECTED == "ERR_UNEXPECTED"
ERR_INVALID_ARGUMENT == "ERR_INVALID_ARGUMENT"
ERR_ABORTED == "ERR_ABORTED"
ERR_ADDRESS_UNREACHABLE == "ERR_ADDRESS_UNREACHABLE"
ERR_SOCKET_NOT_CONNECTED == "ERR_SOCKET_NOT_CONNECTED"
ERR_CONNECTION_RESET == "ERR_CONNECTION_RESET"
ERR_CONNECTION_REFUSED == "ERR_CONNECTION_REFUSED"
ERR_TIMED_OUT == "ERR_TIMED_OUT"
ERR_FAILED == "ERR_FAILED"
ERR_CONNECTION_CLOSED == "ERR_CONNECTION_CLOSED"

\* A completion callback is null or not.
NullCallback == "null"
Callbacks == {NullCallback, "callback"}

---------------------------------------------------------------------------
(* Finite maps with a changing domain.                                      *)

Put(f, k, v) == [x \in DOMAIN f \cup {k} |-> IF x = k THEN v ELSE f[x]]
Erase(f, k) == [x \in DOMAIN f \ {k} |-> f[x]]
EmptyMap == [x \in {} |-> x]

---------------------------------------------------------------------------
(* Messages.  A message keeps the fields the network layer reads: the       *)
(* direction tag, the method (requests), the Request-URI and the first      *)
(* Route (requests), the topmost Via, the To and From tags, the Call-ID     *)
(* and the CSeq (sequence and method).                                      *)

Request(direction, method, request_uri, route, via) ==
    [kind |-> "request", direction |-> direction, method |-> method,
     request_uri |-> request_uri, route |-> route, via |-> via,
     to_tag |-> "", from_tag |-> "ft", call_id |-> "cid",
     cseq |-> 1, cseq_method |-> method]

Response(direction, cseq_method, via, to_tag) ==
    [kind |-> "response", direction |-> direction, method |-> "",
     request_uri |-> EmptyEndPoint, route |-> EmptyEndPoint, via |-> via,
     to_tag |-> to_tag, from_tag |-> "ft", call_id |-> "cid",
     cseq |-> 1, cseq_method |-> cseq_method]

isaRequest(message) == message.kind = "request"

\* ACK is folded into INVITE when a server transaction is looked up.
FoldAck(method) == IF method = "ACK" THEN "INVITE" ELSE method

\* NetworkLayer::ClientTransactionId(request)
ClientTransactionIdOfRequest(request) ==
    <<"c", request.via.branch, request.method>>

\* ClientTransactionId(response) with the method of the message itself,
\* which a response does not have, in place of the method of CSeq.
\* C18_SameClientTransaction tells the two apart.
ClientTransactionIdOfResponseOwnMethod(response) ==
    <<"c", response.via.branch, response.method>>

\* NetworkLayer::ClientTransactionId(response): the method comes from CSeq.
ClientTransactionIdOfResponse(response) ==
    <<"c", response.via.branch, response.cseq_method>>

\* The RFC 2543 fallback of both ServerTransactionId overloads.
FallbackServerTransactionId(message, method) ==
    <<"s", message.to_tag, message.from_tag, message.call_id, message.cseq,
      FoldAck(method)>>
    \o (IF message.via.present
        THEN <<message.via.sent_by,
               IF HasBranch(message.via) THEN message.via.branch ELSE NoBranch>>
        ELSE <<>>)

\* NetworkLayer::ServerTransactionId(request)
ServerTransactionIdOfRequest(request) ==
    IF request.via.present /\ HasBranch(request.via)
       /\ StartsWith(request.via.branch, kMagicCookie)
    THEN <<"s", request.via.branch, request.via.sent_by,
           FoldAck(request.method)>>
    ELSE FallbackServerTransactionId(request, request.method)

\* NetworkLayer::ServerTransactionId(response)
ServerTransactionIdOfResponse(response) ==
    IF response.via.present /\ HasBranch(response.via)
       /\ StartsWith(response.via.branch, kMagicCookie)
    THEN <<"s", response.via.branch, response.via.sent_by,
           response.cseq_method>>
    ELSE FallbackServerTransactionId(response, response.cseq_method)

ServerTransactionId(message) ==
    IF isaRequest(message) THEN ServerTransactionIdOfRequest(message)
    ELSE ServerTransactionIdOfResponse(message)

\* NetworkLayer::GetMessageEndPoint
GetMessageEndPoint(message) ==
    IF isaRequest(message)
    THEN IF ~IsEmpty(message.route) THEN message.route
         ELSE message.request_uri
    ELSE IF ~message.via.present THEN EmptyEndPoint
         ELSE [host |-> IF HasReceived(message.via) THEN message.via.received
                        ELSE message.via.sent_by.host,
               port |-> IF HasRport(message.via) THEN message.via.rport
                        ELSE message.via.sent_by.port,
               protocol |-> message.via.protocol]

\* NetworkLayer::StampClientTopmostVia: a new Via with the channel's origin
\* and a branch of the branch factory.
StampClientTopmostVia(request, destination, branch) ==
    [request EXCEPT !.via =
        ViaParam(Origin(destination).protocol,
                 [host |-> Origin(destination).host,
                  port |-> Origin(destination).port],
                 branch)]

\* StampServerTopmostVia without rport: only received is set.
\* C19_StampedNextHop tells the two apart.
StampServerTopmostViaReceivedOnly(request, destination) ==
    IF ~request.via.present
    THEN [request EXCEPT !.via =
            ViaParam(destination.protocol,
                     [host |-> destination.host, port |-> destination.port],
                     NoBranch)]
    ELSE [request EXCEPT
            !.via.received = IF request.via.sent_by.host # destination.host
                             THEN destination.host ELSE @]

\* NetworkLayer::StampServerTopmostVia: received and rport of the topmost Via
\* are set from the channel's destination where they differ from sent-by.
StampServerTopmostVia(request, destination) ==
    IF ~request.via.present
    THEN [request EXCEPT !.via =
            ViaParam(destination.protocol,
                     [host |-> destination.host, port |-> destination.port],
                     NoBranch)]
    ELSE [request EXCEPT
            !.via.received = IF request.via.sent_by.host # destination.host
                             THEN destination.host ELSE @,
            !.via.rport = IF request.via.sent_by.port # destination.port
                          THEN destination.port ELSE @]

---------------------------------------------------------------------------
(* The mutable members of the network layer as one record, and the record   *)
(* of one channel context.                                                  *)

\* ChannelContext(channel, initial_request, initial_callback): refs_ is 0 and
\* the timer is not running.  `connected` is channel_->is_connected();
\* `holders` counts RequestChannel calls minus ReleaseChannel calls, which
\* the code does not keep.
ChannelContext(initial_request, initial_callback) ==
    [connected |-> FALSE, refs_ |-> 0, timer_ |-> FALSE,
     initial_request_ |-> initial_request,
     initial_callback_ |-> initial_callback,
     transactions_ |-> {}, holders |-> 0]

\* The state a handler starts from.
Members ==
    [channels |-> channels_, clients |-> client_transactions_,
     servers |-> server_transactions_, events |-> <<>>, ret |-> "void"]

\* The transactions of the two maps that are bound to the channel of
\* `destination`.
BoundTo(s, destination) ==
    {id \in DOMAIN s.clients : s.clients[id].channel = destination}
    \cup {id \in DOMAIN s.servers : s.servers[id].channel = destination}

\* A call made by the handler: of the delegate, of a channel, of a
\* transaction or of a completion callback.  A call records what its
\* receiver can see of the network layer when it is made: whether the
\* destination has a context, whether its channel is connected, the
\* transactions bound to it and the transactions that hold a use of its
\* context (transactions_, one use of refs_ each).
Call(s, type, destination, arg) ==
    [s EXCEPT !.events = Append(@,
        [type |-> type, destination |-> destination, arg |-> arg,
         in_channels |-> destination \in DOMAIN s.channels,
         connected |-> /\ destination \in DOMAIN s.channels
                       /\ s.channels[destination].connected,
         bound |-> BoundTo(s, destination),
         users |-> IF destination \in DOMAIN s.channels
                   THEN s.channels[destination].transactions_
                   ELSE {}])]

Return(s, code) == [s EXCEPT !.ret = code]

\* NetworkLayer::GetChannelContext: whether `destination` has a context.
GetChannelContext(s, destination) == destination \in DOMAIN s.channels

---------------------------------------------------------------------------
(* The private methods of the network layer.                                *)

\* RequestChannelInternal that leaves the idle timer running.
\* C37_IdleTimerOnlyWhenUnused tells the two apart.
RequestChannelInternalKeepsTimer(s, destination) ==
    [s EXCEPT !.channels[destination].refs_ = @ + 1]

\* NetworkLayer::RequestChannelInternal: one more use, and the idle timer is
\* stopped.
RequestChannelInternal(s, destination) ==
    [s EXCEPT !.channels[destination].refs_ = @ + 1,
              !.channels[destination].timer_ = FALSE]

\* ReleaseChannelInternal without its timer: the count is decremented and
\* the idle timer is never started.  C3_IdleTimer tells the two apart.
ReleaseChannelInternalNoTimer(s, destination) ==
    [s EXCEPT !.channels[destination].refs_ = @ - 1]

\* NetworkLayer::ReleaseChannelInternal: one use less, and the idle timer is
\* started when no use is left.
ReleaseChannelInternal(s, destination) ==
    [s EXCEPT !.channels[destination].refs_ = @ - 1,
              !.channels[destination].timer_ =
                  IF s.channels[destination].refs_ - 1 = 0 THEN TRUE ELSE @]

\* ClientTransaction::Start, of a class outside the slice: the transaction
\* takes the request; what it sends is the business of the transaction.
ClientTransactionStart(s, id) ==
    Call(s, "ClientTransaction::Start", s.clients[id].channel, id)

\* ServerTransaction::Start, of a class outside the slice.  `notified`
\* counts the OnIncomingRequest calls the delegate got for the transaction.
ServerTransactionStart(s, id) ==
    Call(s, "ServerTransaction::Start", s.servers[id].channel, id)

\* NetworkLayer::CreateClientTransaction
CreateClientTransaction(s, request, destination) ==
    LET id == ClientTransactionIdOfRequest(request)
        s1 == [s EXCEPT
                 !.clients = Put(@, id, [id |-> id, channel |-> destination]),
                 !.channels[destination].transactions_ = @ \cup {id}]
    IN  ClientTransactionStart(RequestChannelInternal(s1, destination), id)

\* NetworkLayer::CreateServerTransaction
CreateServerTransaction(s, request, destination) ==
    LET id == ServerTransactionIdOfRequest(request)
        s1 == [s EXCEPT
                 !.servers = Put(@, id, [id |-> id, channel |-> destination,
                                         notified |-> 0]),
                 !.channels[destination].transactions_ = @ \cup {id}]
    IN  ServerTransactionStart(RequestChannelInternal(s1, destination), id)

\* DestroyClientTransaction that gives the use of the channel back and
\* leaves the id in the transaction set of the context.
\* C35_MapsAndSetsConsistent tells the two apart.
DestroyClientTransactionLeavesId(s, id) ==
    LET destination == s.clients[id].channel
        s1 == [s EXCEPT !.clients = Erase(@, id)]
        s2 == IF GetChannelContext(s1, destination)
              THEN ReleaseChannelInternal(s1, destination)
              ELSE s1
    IN  Call(s2, "ClientTransaction::Close", destination, id)

\* NetworkLayer::DestroyClientTransaction
DestroyClientTransaction(s, id) ==
    LET destination == s.clients[id].channel
        s1 == [s EXCEPT !.clients = Erase(@, id)]
        s2 == IF GetChannelContext(s1, destination)
              THEN ReleaseChannelInternal(
                     [s1 EXCEPT !.channels[destination].transactions_ =
                                    @ \ {id}],
                     destination)
              ELSE s1
    IN  Call(s2, "ClientTransaction::Close", destination, id)

\* DestroyServerTransaction that keeps the use of the channel: the
\* transaction leaves the map and the context is not told.
\* C11_TerminatedRemovesOne tells the two apart.
DestroyServerTransactionKeepsUse(s, id) ==
    Call([s EXCEPT !.servers = Erase(@, id)],
         "ServerTransaction::Close", s.servers[id].channel, id)

\* NetworkLayer::DestroyServerTransaction
DestroyServerTransaction(s, id) ==
    LET destination == s.servers[id].channel
        s1 == [s EXCEPT !.servers = Erase(@, id)]
        s2 == IF GetChannelContext(s1, destination)
              THEN ReleaseChannelInternal(
                     [s1 EXCEPT !.channels[destination].transactions_ =
                                    @ \ {id}],
                     destination)
              ELSE s1
    IN  Call(s2, "ServerTransaction::Close", destination, id)

\* Whether an id is a client transaction's: StartsWith(transaction_id, "c:").
IsClientId(id) == id[1] = "c"

\* The transaction that OnTransactionTerminated looks up and dereferences.
Registered(s, id) ==
    IF IsClientId(id) THEN id \in DOMAIN s.clients ELSE id \in DOMAIN s.servers

\* OnTransactionTerminated that knows client transactions only: the id of a
\* server transaction is dropped.  C12_TerminatedOnce tells the two apart.
OnTransactionTerminatedClientsOnly(s, id) ==
    IF IsClientId(id) THEN DestroyClientTransaction(s, id) ELSE s

\* NetworkLayer::OnTransactionTerminated.  The looked-up transaction is
\* dereferenced without a check; the actions call this for registered ids
\* only (see NoNullTransaction).
OnTransactionTerminated(s, id) ==
    IF IsClientId(id) THEN DestroyClientTransaction(s, id)
    ELSE DestroyServerTransaction(s, id)

\* The loop of DestroyChannelContext over channel_context->transactions_.
RECURSIVE Cascade(_, _)
Cascade(s, ids) ==
    IF ids = {} THEN s
    ELSE LET id == CHOOSE i \in ids : TRUE
         IN  Cascade(OnTransactionTerminated(s, id), ids \ {id})

\* DestroyChannelContext without its loop: the context leaves the map and
\* its transactions stay registered.  C4_ClosedThenNotified tells the two
\* apart.
DestroyChannelContextNoCascade(s, destination) ==
    [s EXCEPT !.channels = Erase(@, destination)]

\* NetworkLayer::DestroyChannelContext: the context leaves the map first,
\* then every transaction registered with it is terminated.
DestroyChannelContext(s, destination) ==
    LET ids == s.channels[destination].transactions_
    IN  Cascade([s EXCEPT !.channels = Erase(@, destination)], ids)

\* CreateChannelContext without the lookup of the factory: a context is
\* made for any protocol.  C8_RoutingErrors tells the two apart.
CreateChannelContextAnyProtocol(s, destination, request, callback, created) ==
    IF created # OK THEN Return(s, created)
    ELSE Return([s EXCEPT !.channels =
                    Put(@, destination, ChannelContext(request, callback))],
                OK)

\* ChannelFactory::CreateChannel as seen by CreateChannelContext: `created`
\* is the factory's result.
\* NetworkLayer::CreateChannelContext
CreateChannelContext(s, destination, request, callback, created) ==
    IF destination.protocol \notin factories_
    THEN Return(s, ERR_ADDRESS_UNREACHABLE)
    ELSE IF created # OK THEN Return(s, created)
    ELSE Return([s EXCEPT !.channels =
                    Put(@, destination, ChannelContext(request, callback))],
                OK)

---------------------------------------------------------------------------
(* Sending.                                                                 *)

\* SendRequestUsingChannelContext without the test of the method: an ACK
\* gets a client transaction like any request.  C33_SendOnExisting tells
\* the two apart.
SendRequestUsingChannelContextAckTracked(s, request, destination, callback, branch, sent) ==
    IF ~s.channels[destination].connected
    THEN Return(s, ERR_SOCKET_NOT_CONNECTED)
    ELSE LET stamped == IF ~request.via.present
                        THEN StampClientTopmostVia(request, destination, branch)
                        ELSE request
         IN  Return(Call(CreateClientTransaction(s, stamped, destination),
                         "Channel::Send", destination, stamped), sent)

\* NetworkLayer::SendRequestUsingChannelContext.  `branch` is what the
\* branch factory returns if it is asked, `sent` what Channel::Send returns.
SendRequestUsingChannelContext(s, request, destination, callback, branch, sent) ==
    IF ~s.channels[destination].connected
    THEN Return(s, ERR_SOCKET_NOT_CONNECTED)
    ELSE LET stamped == IF ~request.via.present
                        THEN StampClientTopmostVia(request, destination, branch)
                        ELSE request
             s1 == IF request.method # "ACK"
                   THEN CreateClientTransaction(s, stamped, destination)
                   ELSE s
         IN  Return(Call(s1, "Channel::Send", destination, stamped), sent)

\* SendRequest without the test of the method: an ACK opens a connection
\* like any request.  C7_AckOpensNothing tells the two apart.
SendRequestAckConnects(s, request, callback, branch, created, sent) ==
    LET destination == GetMessageEndPoint(request)
    IN  IF IsEmpty(destination) THEN Return(s, ERR_INVALID_ARGUMENT)
        ELSE IF GetChannelContext(s, destination)
        THEN SendRequestUsingChannelContext(s, request, destination, callback,
                                            branch, sent)
        ELSE LET s1 == CreateChannelContext(s, destination, request, callback,
                                            created)
             IN  IF s1.ret # OK THEN s1
                 ELSE Return(Call(s1, "Channel::Connect", destination, NoMessage),
                             ERR_IO_PENDING)

\* NetworkLayer::SendRequest.  `created` is what the channel factory returns
\* if it is asked.
SendRequest(s, request, callback, branch, created, sent) ==
    LET destination == GetMessageEndPoint(request)
    IN  IF IsEmpty(destination) THEN Return(s, ERR_INVALID_ARGUMENT)
        ELSE IF GetChannelContext(s, destination)
        THEN SendRequestUsingChannelContext(s, request, destination, callback,
                                            branch, sent)
        ELSE IF request.method = "ACK" THEN Return(s, ERR_ABORTED)
        ELSE LET s1 == CreateChannelContext(s, destination, request, callback,
                                            created)
             IN  IF s1.ret # OK THEN s1
                 ELSE Return(Call(s1, "Channel::Connect", destination, NoMessage),
                             ERR_IO_PENDING)

\* SendResponse without the lookup of the server transaction: every
\* response goes to the channel.  C9_SendOfResponse tells the two apart.
SendResponseDirect(s, response, callback) ==
    LET destination == GetMessageEndPoint(response)
    IN  IF IsEmpty(destination) THEN Return(s, ERR_INVALID_ARGUMENT)
        ELSE IF ~GetChannelContext(s, destination)
        THEN Return(s, ERR_SOCKET_NOT_CONNECTED)
        ELSE Return(Call(s, "Channel::Send", destination, response), OK)

\* NetworkLayer::SendResponse
SendResponse(s, response, callback) ==
    LET id == ServerTransactionIdOfResponse(response)
        destination == GetMessageEndPoint(response)
    IN  IF id \in DOMAIN s.servers
        THEN Return(Call(s, "ServerTransaction::Send", s.servers[id].channel, id),
                    OK)
        ELSE IF IsEmpty(destination) THEN Return(s, ERR_INVALID_ARGUMENT)
        ELSE IF ~GetChannelContext(s, destination)
        THEN Return(s, ERR_SOCKET_NOT_CONNECTED)
        ELSE Return(Call(s, "Channel::Send", destination, response), OK)

\* NetworkLayer::Send
NetworkLayerSend(s, message, callback, branch, created, sent) ==
    IF message.direction # "Outgoing" THEN Return(s, ERR_UNEXPECTED)
    ELSE IF isaRequest(message)
    THEN SendRequest(s, message, callback, branch, created, sent)
    ELSE SendResponse(s, message, callback)

---------------------------------------------------------------------------
(* The Channel::Delegate callbacks.                                         *)

\* delegate_->OnIncomingRequest(request)
DelegateOnIncomingRequest(s, destination, request) ==
    LET id == ServerTransactionIdOfRequest(request)
        s1 == IF id \in DOMAIN s.servers
              THEN [s EXCEPT !.servers[id].notified = @ + 1]
              ELSE s
    IN  Call(s1, "Delegate::OnIncomingRequest", destination, id)

\* NetworkLayer::HandleIncomingRequest
HandleIncomingRequest(s, destination, request) ==
    DelegateOnIncomingRequest(
        CreateServerTransaction(s, request, destination), destination, request)

\* HandleIncomingResponse that hands the unmatched response to the delegate.
\* C10_UnmatchedResponse tells the two apart.
HandleIncomingResponsePassedUp(s, destination, response) ==
    Call(s, "Delegate::OnIncomingResponse", destination,
         ClientTransactionIdOfResponse(response))

\* NetworkLayer::HandleIncomingResponse: the response is logged and dropped.
HandleIncomingResponse(s, destination, response) == s

\* OnIncomingMessage without the lookup of the server transaction: every
\* request makes a transaction and reaches the delegate.
\* C2_OneIncomingRequest tells the two apart.
OnIncomingMessageNoLookup(s, destination, message) ==
    IF isaRequest(message)
    THEN HandleIncomingRequest(s, destination,
                               StampServerTopmostVia(message, destination))
    ELSE LET id == ClientTransactionIdOfResponse(message)
         IN  IF id \in DOMAIN s.clients
             THEN Call(s, "ClientTransaction::HandleIncomingResponse",
                       s.clients[id].channel, id)
             ELSE HandleIncomingResponse(s, destination, message)

\* NetworkLayer::OnIncomingMessage
OnIncomingMessage(s, destination, message) ==
    IF isaRequest(message)
    THEN LET request == StampServerTopmostVia(message, destination)
             id == ServerTransactionIdOfRequest(request)
         IN  IF id \in DOMAIN s.servers
             THEN Call(s, "ServerTransaction::HandleIncomingRequest",
                       s.servers[id].channel, id)
             ELSE HandleIncomingRequest(s, destination, request)
    ELSE LET id == ClientTransactionIdOfResponse(message)
         IN  IF id \in DOMAIN s.clients
             THEN Call(s, "ClientTransaction::HandleIncomingResponse",
                       s.clients[id].channel, id)
             ELSE HandleIncomingResponse(s, destination, message)

\* NetworkLayer::OnChannelClosed
OnChannelClosed(s, destination, error) ==
    LET s1 == DestroyChannelContext(s, destination)
        s2 == Call(s1, "Channel::CloseWithError", destination, error)
    IN  Call(s2, "Delegate::OnChannelClosed", destination, error)

\* NetworkLayer::OnIdleChannelTimedOut
OnIdleChannelTimedOut(s, endpoint) == OnChannelClosed(s, endpoint, ERR_TIMED_OUT)

\* The error path of OnChannelConnected that tells the delegate of the
\* close whatever the connect result was.  C5_ConnectError tells the two
\* apart.
OnChannelConnectedFailedAlwaysTold(s, destination, initial_result, result) ==
    LET callback == s.channels[destination].initial_callback_
        s1 == DestroyChannelContext(s, destination)
        s2 == Call(s1, "Channel::Close", destination, result)
        s3 == IF callback # NullCallback
              THEN Call(s2, "Callback::Run", destination, result)
              ELSE s2
    IN  Call(s3, "Delegate::OnChannelClosed", destination, result)

\* The part of OnChannelConnected that runs when the handler ends in an
\* error (lines 685-695).
OnChannelConnectedFailed(s, destination, initial_result, result) ==
    LET callback == s.channels[destination].initial_callback_
        s1 == DestroyChannelContext(s, destination)
        s2 == Call(s1, "Channel::Close", destination, result)
        s3 == IF callback # NullCallback
              THEN Call(s2, "Callback::Run", destination, result)
              ELSE s2
    IN  IF initial_result = OK
        THEN Call(s3, "Delegate::OnChannelClosed", destination, result)
        ELSE s3

\* The sending of the initial request that leaves the request and the
\* callback in the context.  C6_FirstSendConnects tells the two apart.
OnChannelConnectedSendInitialKept(s, destination, branch, sent) ==
    LET context == s.channels[destination]
        s1 == SendRequestUsingChannelContext(s, context.initial_request_,
                  destination, context.initial_callback_, branch, sent)
    IN  IF s1.ret = OK /\ context.initial_callback_ # NullCallback
        THEN Call(s1, "Callback::Run", destination, OK)
        ELSE s1

\* The part of OnChannelConnected that sends the initial request of the
\* context (lines 668-683).
OnChannelConnectedSendInitial(s, destination, branch, sent) ==
    LET context == s.channels[destination]
        s1 == SendRequestUsingChannelContext(s, context.initial_request_,
                  destination, context.initial_callback_, branch, sent)
        s2 == IF s1.ret = OK /\ context.initial_callback_ # NullCallback
              THEN Call(s1, "Callback::Run", destination, OK)
              ELSE s1
    IN  IF s1.ret \in {OK, ERR_IO_PENDING}
        THEN [s2 EXCEPT !.channels[destination].initial_request_ = NoMessage,
                        !.channels[destination].initial_callback_ = NullCallback]
        ELSE s2

\* The start of OnChannelConnected, up to the call of the delegate (lines
\* 657-666).  The channel is connected when it reports success.
OnChannelConnectedNotify(s, destination, result) ==
    Call([s EXCEPT !.channels[destination].connected = (result = OK)],
         "Delegate::OnChannelConnected", destination, result)

\* The rest of OnChannelConnected, after the delegate returned (lines
\* 667-696).
OnChannelConnectedRest(s1, destination, result, branch, sent) ==
    LET s2 == IF result = OK
                 /\ s1.channels[destination].initial_request_ # NoMessage
              THEN OnChannelConnectedSendInitial(s1, destination, branch, sent)
              ELSE Return(s1, result)
    IN  IF s2.ret \notin {OK, ERR_IO_PENDING}
        THEN Return(OnChannelConnectedFailed(s2, destination, result, s2.ret),
                    "void")
        ELSE Return(s2, "void")

\* NetworkLayer::OnChannelConnected.  The channel is connected when it
\* reports success.
OnChannelConnected(s, destination, result, branch, sent) ==
    OnChannelConnectedRest(OnChannelConnectedNotify(s, destination, result),
                           destination, result, branch, sent)

---------------------------------------------------------------------------
(* The inputs: what the upper layer sends and what the peers deliver.       *)

\* A Via the upper layer copied into a request, with the branch it chose.
UpperVia(branch) ==
    ViaParam("UDP", [host |-> "192.0.2.1", port |-> 5060], branch)

Branch1 == <<kMagicCookie, "1">>
Branch2 == <<kMagicCookie, "2">>
OldBranch == <<"old", "1">>

\* The branches of the branch factory and of the upper layer.
CookieBranches == {Branch1, Branch2}

\* The messages the upper layer hands to Send as requests: to either peer by
\* the Request-URI, to TlsPeer by a Route that overrides the Request-URI, to
\* nowhere; without a Via or with a copied one; and one message that was
\* received, not made for sending.
SentRequests ==
    {Request("Outgoing", m, UdpPeer, EmptyEndPoint, NoVia) : m \in Methods}
    \cup {Request("Outgoing", m, TlsPeer, EmptyEndPoint, NoVia) :
            m \in {"INVITE", "ACK"}}
    \cup {Request("Outgoing", "INVITE", UdpPeer, TlsPeer, NoVia),
          Request("Outgoing", "OPTIONS", UdpPeer, EmptyEndPoint, UpperVia(Branch1)),
          Request("Outgoing", "ACK", UdpPeer, EmptyEndPoint, UpperVia(Branch1)),
          Request("Outgoing", "INVITE", EmptyEndPoint, EmptyEndPoint, NoVia),
          Request("Incoming", "OPTIONS", UdpPeer, EmptyEndPoint, NoVia)}

\* The sent-by of the peers' Vias: the address of TlsPeer, which is not the
\* one the channel of UdpPeer sees.
PeerSentBy == [host |-> "10.0.0.1", port |-> 5060]

\* The topmost Via of a request that arrives on the channel of `destination`:
\* with a branch of RFC 3261 or with an older one.
PeerVias(destination) ==
    {ViaParam(destination.protocol, PeerSentBy, b) : b \in {Branch1, OldBranch}}

\* The requests a peer delivers on the channel of `destination`.
ReceivedRequests(destination) ==
    {Request("Incoming", m, EmptyEndPoint, EmptyEndPoint, via) :
        m \in {"INVITE", "ACK"}, via \in {NoVia} \cup PeerVias(destination)}

\* The responses a peer delivers: they carry a Via of this user agent.
ReceivedResponses ==
    {Response("Incoming", m, UpperVia(b), "tt") :
        m \in {"INVITE", "OPTIONS"}, b \in CookieBranches}

\* The topmost Via as StampServerTopmostVia leaves it for a request that
\* arrived on the channel of `destination`.
StampedVias(destination) ==
    {StampServerTopmostVia(
        Request("Incoming", "INVITE", EmptyEndPoint, EmptyEndPoint, v),
        destination).via : v \in {NoVia} \cup PeerVias(destination)}

\* The responses the upper layer hands to Send: the topmost Via is the one
\* of a received request, as StampServerTopmostVia left it;
\* the To tag is the one of the request or the one the upper layer added.
SentResponses ==
    {Response("Outgoing", "INVITE", via, tag) :
        via \in {NoVia} \cup UNION {StampedVias(d) : d \in Destinations},
        tag \in {"", "tt"}}
    \cup {Response("Incoming", "OPTIONS", NoVia, "tt")}

\* What Channel::Send and ChannelFactory::CreateChannel may return.
SendResults == {OK, ERR_IO_PENDING, ERR_CONNECTION_RESET}
CreateResults == {OK, ERR_FAILED}
ConnectResults == {OK, ERR_CONNECTION_REFUSED}

\* The contexts that still hold an initial request.
Stashed(s) ==
    {d \in DOMAIN s.channels : s.channels[d].initial_request_ # NoMessage}

\* The client transaction ids that are taken: those registered and those of
\* the initial requests that carry a Via already.
ClientIdsInUse(s) ==
    DOMAIN s.clients
    \cup {ClientTransactionIdOfRequest(s.channels[d].initial_request_) :
            d \in {x \in Stashed(s) :
                     s.channels[x].initial_request_.via.present}}

\* BranchFactory::CreateBranch for `request`: a branch that no client
\* transaction of the method uses.  Which one is immaterial; the model takes
\* the first.
CreateBranch(s, request) ==
    LET free == {b \in CookieBranches :
                   <<"c", b, request.method>> \notin ClientIdsInUse(s)}
    IN  IF Branch1 \in free \/ free = {} THEN {Branch1} ELSE {Branch2}

\* RFC 3261 8.1.1.7: the branch of a request is unique among the client
\* transactions of the user agent; CANCEL and ACK for a non-2xx response
\* excepted, which differ in the method.
FreshFor(s, request, branch) ==
    LET used == IF request.via.present THEN request.via.branch ELSE branch
    IN  request.method = "ACK" \/ <<"c", used, request.method>> \notin ClientIdsInUse(s)

\* The model keeps at most MaxTransactions transactions, the initial
\* requests that wait for their connection included.
WithinBounds(s) ==
    Cardinality(DOMAIN s.clients) + Cardinality(DOMAIN s.servers)
        + Cardinality(Stashed(s)) <= MaxTransactions

---------------------------------------------------------------------------
(* The state machine.                                                       *)

\* No message is given to the static functions.
NoArguments == [kind |-> "none"]

\* No handler is running: the task runner of the network layer is between
\* two tasks.
Idle ==
    [name |-> "idle", destination |-> EmptyEndPoint, message |-> NoMessage,
     callback |-> NullCallback, result |-> OK, created |-> OK, sent |-> OK,
     ret |-> "void"]

\* The network layer as its constructor leaves it, from settings without a
\* handler factory for certificate errors.
Init ==
    /\ factories_ = {}
    /\ channels_ = EmptyMap
    /\ client_transactions_ = EmptyMap
    /\ server_transactions_ = EmptyMap
    /\ events = <<>>
    /\ op = Idle
    /\ transaction_state = EmptyMap
    /\ posted_ = <<>>
    /\ destroyed = FALSE
    /\ now = 0
    /\ ssl_cert_error_handler_factory_ = FALSE
    /\ ssl_cert_error_transactions_ = <<>>
    /\ arguments = NoArguments
    /\ results = EmptyMap
    /\ sip_message = NoMessage

\* What the collaborators answer while a handler runs: `result` is the
\* result the channel reports to OnChannelConnected or OnChannelClosed,
\* `created` what ChannelFactory::CreateChannel returns and `sent` what
\* Channel::Send returns, where the handler asks.
Answers(result, created, sent) ==
    [result |-> result, created |-> created, sent |-> sent]

NoAnswer == Answers(OK, OK, OK)

\* The handler `name` runs with these inputs, leaves the members as in `s`
\* and is about to return s.ret.  Handlers run one at a time, on the thread
\* of the network layer.
Commit(name, destination, message, callback, answers, s) ==
    /\ op = Idle
    /\ WithinBounds(s)
    /\ channels_' = s.channels
    /\ client_transactions_' = s.clients
    /\ server_transactions_' = s.servers
    /\ events' = s.events
    /\ op' = [name |-> name, destination |-> destination, message |-> message,
              callback |-> callback, result |-> answers.result,
              created |-> answers.created, sent |-> answers.sent,
              ret |-> s.ret]
    /\ UNCHANGED <<factories_, ssl_cert_error_handler_factory_, arguments,
                   results, sip_message, now>>

\* The same where the state machines of the transactions are not followed
\* and no task is posted.
Done(name, destination, message, callback, answers, s) ==
    /\ ~destroyed
    /\ Commit(name, destination, message, callback, answers, s)
    /\ UNCHANGED <<transaction_state, posted_, destroyed,
                   ssl_cert_error_transactions_>>

\* The running handler returns to its caller.
Returned ==
    /\ op # Idle
    /\ op' = Idle
    /\ events' = <<>>
    /\ UNCHANGED <<factories_, channels_, client_transactions_,
                   server_transactions_, transaction_state, posted_,
                   destroyed, ssl_cert_error_handler_factory_,
                   ssl_cert_error_transactions_, arguments, results,
                   sip_message, now>>

\* NetworkLayer::RegisterChannelFactory
RegisterChannelFactory(protocol) ==
    /\ op = Idle
    /\ ~destroyed
    /\ protocol \notin factories_
    /\ factories_' = factories_ \cup {protocol}
    /\ events' = <<>>
    /\ op' = [Idle EXCEPT !.name = "RegisterChannelFactory"]
    /\ UNCHANGED <<channels_, client_transactions_, server_transactions_,
                   transaction_state, posted_, destroyed,
                   ssl_cert_error_handler_factory_,
                   ssl_cert_error_transactions_, arguments, results,
                   sip_message, now>>

\* The uses of channels that the upper layer holds: the RequestChannel
\* calls it has not yet matched by a ReleaseChannel.
Held == {d \in DOMAIN channels_ : channels_[d].holders > 0}
HeldUses(d) == IF d \in Held THEN channels_[d].holders ELSE 0
TotalHeld == HeldUses(UdpPeer) + HeldUses(TlsPeer)

\* The destinations that were released more often than requested.
OverReleased == {d \in DOMAIN channels_ : channels_[d].holders < 0}

\* NetworkLayer::RequestChannel
RequestChannel(destination) ==
    LET s == Members
    IN  IF GetChannelContext(s, destination)
        THEN /\ TotalHeld < MaxHolders
             /\ Done("RequestChannel", destination, NoMessage, NullCallback, NoAnswer,
                     Return([RequestChannelInternal(s, destination) EXCEPT
                                !.channels[destination].holders = @ + 1],
                            TRUE))
        ELSE Done("RequestChannel", destination, NoMessage, NullCallback, NoAnswer,
                  Return(s, FALSE))

\* NetworkLayer::ReleaseChannel.  Nothing keeps the upper layer from
\* releasing a channel that it does not hold; the model lets it do so once.
ReleaseChannel(destination) ==
    LET s == Members
    IN  IF GetChannelContext(s, destination)
        THEN /\ s.channels[destination].holders > 0 \/ OverReleased = {}
             /\ Done("ReleaseChannel", destination, NoMessage, NullCallback, NoAnswer,
                     [ReleaseChannelInternal(s, destination) EXCEPT
                         !.channels[destination].holders = @ - 1])
        ELSE Done("ReleaseChannel", destination, NoMessage, NullCallback, NoAnswer, s)

\* NetworkLayer::Connect
NetworkLayerConnect(s, destination, created) ==
    IF GetChannelContext(s, destination) THEN Return(s, OK)
    ELSE LET s1 == CreateChannelContext(s, destination, NoMessage,
                                        NullCallback, created)
         IN  IF s1.ret # OK THEN s1
             ELSE Return(Call(s1, "Channel::Connect", destination, NoMessage),
                         ERR_IO_PENDING)

Connect(destination) ==
    \E created \in IF destination \notin DOMAIN channels_
                       /\ destination.protocol \in factories_
                    THEN CreateResults ELSE {OK} :
        Done("Connect", destination, NoMessage, NullCallback,
             Answers(OK, created, OK),
             NetworkLayerConnect(Members, destination, created))

\* NetworkLayer::Send of a request.  The branch factory, the channel
\* factory and Channel::Send are asked only on the paths that reach them.
SendOfRequest ==
    \E request \in SentRequests :
    LET destination == GetMessageEndPoint(request)
        outgoing == request.direction = "Outgoing" /\ ~IsEmpty(destination)
        sends == outgoing /\ destination \in DOMAIN channels_
                          /\ channels_[destination].connected
        creates == outgoing /\ destination \notin DOMAIN channels_
                            /\ request.method # "ACK"
                            /\ destination.protocol \in factories_
    IN  \E callback \in IF sends \/ creates THEN Callbacks ELSE {"callback"},
           branch \in IF sends /\ ~request.via.present
                      THEN CreateBranch(Members, request) ELSE {NoBranch},
           created \in IF creates THEN CreateResults ELSE {OK},
           sent \in IF sends THEN SendResults ELSE {OK} :
            /\ (sends \/ creates) => FreshFor(Members, request, branch)
            /\ Done("Send", destination, request, callback,
                    Answers(OK, created, sent),
                    NetworkLayerSend(Members, request, callback, branch,
                                     created, sent))

\* NetworkLayer::Send of a response
SendOfResponse ==
    \E response \in SentResponses, callback \in {"callback"} :
        Done("Send", GetMessageEndPoint(response), response, callback, NoAnswer,
             NetworkLayerSend(Members, response, callback, NoBranch, OK, OK))

\* The channel of `destination` reports the end of its connection attempt.
ChannelConnected(destination) ==
    /\ destination \in DOMAIN channels_
    /\ ~channels_[destination].connected
    /\ \E result \in ConnectResults :
       LET initial == channels_[destination].initial_request_
           sends == result = OK /\ initial # NoMessage
       IN  \E branch \in IF sends /\ ~initial.via.present
                         THEN CreateBranch(Members, initial) ELSE {NoBranch},
              sent \in IF sends THEN SendResults ELSE {OK} :
            /\ sends => FreshFor([Members EXCEPT
                            !.channels[destination].initial_request_ = NoMessage],
                         initial, branch)
            /\ Done("OnChannelConnected", destination, NoMessage, NullCallback,
                    Answers(result, OK, sent),
                    OnChannelConnected(Members, destination, result, branch, sent))

\* The connected channel of `destination` delivers a message of its peer.
IncomingMessage(destination) ==
    /\ destination \in DOMAIN channels_
    /\ channels_[destination].connected
    /\ \E message \in ReceivedRequests(destination) \cup ReceivedResponses :
        Done("OnIncomingMessage", destination, message, NullCallback, NoAnswer,
             OnIncomingMessage(Members, destination, message))

\* The connected channel of `destination` reports that it was closed.
ChannelClosed(destination) ==
    /\ destination \in DOMAIN channels_
    /\ channels_[destination].connected
    /\ \E error \in {ERR_CONNECTION_RESET} :
        Done("OnChannelClosed", destination, NoMessage, NullCallback,
             Answers(error, OK, OK),
             OnChannelClosed(Members, destination, error))

\* The idle timer of the context of `destination` fires.
IdleChannelTimedOut(destination) ==
    /\ destination \in DOMAIN channels_
    /\ channels_[destination].timer_
    /\ Done("OnIdleChannelTimedOut", destination, NoMessage, NullCallback,
            NoAnswer,
            OnIdleChannelTimedOut(Members, destination))

\* A registered transaction reaches its terminal state and tells the
\* network layer.
TransactionTerminated(id) ==
    /\ Registered(Members, id)
    /\ Done("OnTransactionTerminated",
            IF IsClientId(id) THEN client_transactions_[id].channel
            ELSE server_transactions_[id].channel,
            NoMessage, NullCallback, NoAnswer,
            OnTransactionTerminated(Members, id))

Next ==
    \/ \E protocol \in Protocols : RegisterChannelFactory(protocol)
    \/ \E destination \in Destinations : RequestChannel(destination)
    \/ \E destination \in Destinations : ReleaseChannel(destination)
    \/ \E destination \in Destinations : Connect(destination)
    \/ SendOfRequest
    \/ SendOfResponse
    \/ \E destination \in Destinations : ChannelConnected(destination)
    \/ \E destination \in Destinations : IncomingMessage(destination)
    \/ \E destination \in Destinations : ChannelClosed(destination)
    \/ \E destination \in Destinations : IdleChannelTimedOut(destination)
    \/ \E id \in DOMAIN client_transactions_ \cup DOMAIN server_transactions_ :
          TransactionTerminated(id)
    \/ Returned

Spec == Init /\ [][Next]_vars

---------------------------------------------------------------------------
(* Well-formedness of the model.                                            *)

\* The kinds of call a handler makes.
CallTypes ==
    {"Delegate::OnChannelConnected", "Delegate::OnChannelClosed",
     "Delegate::OnIncomingRequest", "Channel::Connect", "Channel::Send",
     "Channel::Close", "Channel::CloseWithError", "Callback::Run",
     "MessageLoop::PostTask",
     "ClientTransaction::Start", "ClientTransaction::Close",
     "ClientTransaction::HandleIncomingResponse",
     "ServerTransaction::Start", "ServerTransaction::Close",
     "ServerTransaction::Send", "ServerTransaction::HandleIncomingRequest",
     "SSLCertErrorTransaction::HandleSSLCertError",
     "SSLCertErrorTransaction::client_cert",
     "SSLCertErrorTransaction::is_accepted",
     "Channel::ReconnectIgnoringLastError",
     "Channel::ReconnectWithCertificate"}

TypeOK ==
    /\ factories_ \subseteq Protocols
    /\ DOMAIN channels_ \subseteq Destinations
    /\ \A d \in DOMAIN channels_ :
          /\ channels_[d].connected \in BOOLEAN
          /\ channels_[d].timer_ \in BOOLEAN
          /\ channels_[d].refs_ \in Int
          /\ channels_[d].initial_callback_ \in Callbacks
          /\ channels_[d].initial_request_ \in SentRequests \cup {NoMessage}
    /\ \A id \in DOMAIN client_transactions_ :
          client_transactions_[id].id = id /\ IsClientId(id)
    /\ \A id \in DOMAIN server_transactions_ :
          server_transactions_[id].id = id /\ ~IsClientId(id)
    /\ \A i \in 1..Len(events) : events[i].type \in CallTypes

\* OnTransactionTerminated and the loop of DestroyChannelContext dereference
\* the transaction they look up: every id a context holds is registered.
NoNullTransaction ==
    \A d \in DOMAIN channels_ :
        \A id \in channels_[d].transactions_ : Registered(Members, id)

\* The reference count is the number of registered transactions of the
\* context plus the RequestChannel calls minus the ReleaseChannel calls.
RefsBalance ==
    \A d \in DOMAIN channels_ :
        /\ channels_[d].refs_ =
              Cardinality(channels_[d].transactions_) + channels_[d].holders
        /\ channels_[d].transactions_ = BoundTo(Members, d)

---------------------------------------------------------------------------
(* Reading the calls of a handler.                                          *)

DelegateCalls ==
    {"Delegate::OnChannelConnected", "Delegate::OnChannelClosed",
     "Delegate::OnIncomingRequest"}

\* The positions of the calls of `type` that concern `destination`.
CallsOf(evs, type, destination) ==
    {i \in DOMAIN evs : evs[i].type = type /\ evs[i].destination = destination}

\* The positions of the calls of `type`.
CallsOfType(evs, type) == {i \in DOMAIN evs : evs[i].type = type}

\* The positions of the calls of the delegate.
CallsOfDelegate(evs) == {i \in DOMAIN evs : evs[i].type \in DelegateCalls}

\* The handler left the channel map, both transaction maps and with them
\* every reference count as they were.
MembersUnchanged ==
    /\ channels_' = channels_
    /\ client_transactions_' = client_transactions_
    /\ server_transactions_' = server_transactions_

\* The step is the run of handler `name`.
Runs(name) == op = Idle /\ op'.name = name

\* The external holders of a context: who called RequestChannel and has not
\* called ReleaseChannel yet.
ExternalHolders(d) ==
    IF channels_[d].holders > 0 THEN channels_[d].holders ELSE 0

---------------------------------------------------------------------------
(* C1..C10: the contracts of the network layer.                             *)

\* C1: in every reachable state each channel context's reference count is
\* non-negative and equals the number of live transactions that hold the
\* context plus the number of external holders.
C1_RefCountIsUsers ==
    \A d \in DOMAIN channels_ :
        /\ channels_[d].refs_ >= 0
        /\ channels_[d].refs_ =
              Cardinality(BoundTo(Members, d)) + ExternalHolders(d)

\* C2: the requests that map to one server transaction id, while that
\* transaction is registered, produce exactly one OnIncomingRequest: the
\* first creates the transaction and notifies the delegate, a later copy
\* goes to the transaction and produces no call of the delegate.
C2_OneIncomingRequest ==
    [][ /\ \A id \in DOMAIN server_transactions_' :
              server_transactions_'[id].notified = 1
        /\ (Runs("OnIncomingMessage") /\ isaRequest(op'.message)) =>
              LET id == ServerTransactionIdOfRequest(
                            StampServerTopmostVia(op'.message, op'.destination))
              IN  IF id \in DOMAIN server_transactions_
                  THEN /\ CallsOfDelegate(events') = {}
                       /\ Len(events') = 1
                       /\ events'[1].type = "ServerTransaction::HandleIncomingRequest"
                       /\ events'[1].arg = id
                       /\ MembersUnchanged
                  ELSE /\ id \in DOMAIN server_transactions_'
                       /\ server_transactions_'[id].channel = op'.destination
                       /\ Cardinality(CallsOfDelegate(events')) = 1
                       /\ \E i \in CallsOfType(events', "Delegate::OnIncomingRequest") :
                             events'[i].arg = id
      ]_vars

\* C2, witness: a copy of a request was absorbed by its server transaction.
C2_Witness ==
    /\ op.name = "OnIncomingMessage"
    /\ isaRequest(op.message)
    /\ Len(events) = 1
    /\ events[1].type = "ServerTransaction::HandleIncomingRequest"

\* C3: when the reference count of a context drops to zero the idle timer
\* is started; when the timer fires, it was still running, the channel is
\* closed, the context leaves the channel map and the delegate gets
\* OnChannelClosed; when a new user takes the context while the timer runs,
\* the timer is stopped, so it cannot fire and close the channel.
C3_IdleTimer ==
    [][ /\ \A d \in DOMAIN channels_ \cap DOMAIN channels_' :
              /\ (channels_[d].refs_ > 0 /\ channels_'[d].refs_ = 0)
                    => channels_'[d].timer_
              /\ (channels_[d].timer_
                    /\ channels_'[d].refs_ > channels_[d].refs_)
                    => ~channels_'[d].timer_
        /\ Runs("OnIdleChannelTimedOut") =>
              LET d == op'.destination
              IN  /\ channels_[d].timer_
                  /\ d \notin DOMAIN channels_'
                  /\ CallsOf(events', "Channel::CloseWithError", d) # {}
                  /\ CallsOf(events', "Delegate::OnChannelClosed", d) # {}
      ]_vars

\* C3, witness: the idle timer fired and the channel was closed by it.
C3_Witness ==
    /\ op.name = "OnIdleChannelTimedOut"
    /\ op.destination \notin DOMAIN channels_
    /\ CallsOf(events, "Delegate::OnChannelClosed", op.destination) # {}

\* C4: when a channel reports OnChannelClosed, its context leaves the
\* channel map, every transaction bound to it is closed and leaves its map,
\* and the delegate gets OnChannelClosed last: at that call the destination
\* is not in the channel map and no transaction bound to it is registered.
C4_ClosedThenNotified ==
    [][ Runs("OnChannelClosed") =>
          LET d == op'.destination
              bound == BoundTo(Members, d)
              n == Len(events')
          IN  /\ d \notin DOMAIN channels_'
              /\ \A id \in bound :
                    /\ id \notin DOMAIN client_transactions_'
                    /\ id \notin DOMAIN server_transactions_'
                    /\ \E i \in 1..(n - 1) :
                          /\ events'[i].type \in {"ClientTransaction::Close",
                                                  "ServerTransaction::Close"}
                          /\ events'[i].arg = id
              /\ n >= 1
              /\ CallsOfType(events', "Delegate::OnChannelClosed") = {n}
              /\ events'[n].destination = d
              /\ ~events'[n].in_channels
              /\ events'[n].bound = {}
      ]_vars

\* C4, witness: a channel that carried a transaction was closed by its peer.
C4_Witness ==
    /\ op.name = "OnChannelClosed"
    /\ Len(events) >= 3
    /\ events[1].type \in {"ClientTransaction::Close", "ServerTransaction::Close"}
    /\ events[Len(events)].type = "Delegate::OnChannelClosed"

\* C5: when OnChannelConnected ends in an error (the connect failed, or it
\* succeeded and Channel::Send of the initial request returned an error),
\* the context is destroyed, the channel is closed, the initial callback, if
\* there is one, runs once with that error, and the delegate gets
\* OnChannelClosed if and only if the connect result was success.
C5_ConnectError ==
    [][ Runs("OnChannelConnected") =>
          LET d == op'.destination
              sends == op'.result = OK
                          /\ channels_[d].initial_request_ # NoMessage
              failed == op'.result # OK
                          \/ (sends /\ op'.sent \notin {OK, ERR_IO_PENDING})
              error == IF op'.result # OK THEN op'.result ELSE op'.sent
              runs == CallsOf(events', "Callback::Run", d)
          IN  failed =>
                /\ d \notin DOMAIN channels_'
                /\ Cardinality(CallsOf(events', "Channel::Close", d)) = 1
                /\ IF channels_[d].initial_callback_ # NullCallback
                   THEN /\ Cardinality(runs) = 1
                        /\ \A i \in runs : events'[i].arg = error
                   ELSE runs = {}
                /\ (CallsOf(events', "Delegate::OnChannelClosed", d) # {})
                      <=> (op'.result = OK)
      ]_vars

\* C5, witness: the connect succeeded, the initial request could not be
\* sent, and the delegate was told of the close.
C5_Witness ==
    /\ op.name = "OnChannelConnected"
    /\ op.result = OK
    /\ op.sent = ERR_CONNECTION_RESET
    /\ CallsOf(events, "Callback::Run", op.destination) # {}
    /\ CallsOf(events, "Delegate::OnChannelClosed", op.destination) # {}

\* Send of a non-ACK request that is outgoing, to a destination without a
\* context whose protocol has a registered factory.
FirstSend ==
    /\ Runs("Send")
    /\ isaRequest(op'.message)
    /\ op'.message.direction = "Outgoing"
    /\ op'.message.method # "ACK"
    /\ ~IsEmpty(op'.destination)
    /\ op'.destination \notin DOMAIN channels_
    /\ op'.destination.protocol \in factories_

\* What C6 says of such a Send: one context more, which holds the request
\* and the callback; the connect is started; the result is pending; no
\* transaction is made.
FirstSendStashes ==
    LET d == op'.destination
    IN  /\ DOMAIN channels_' = DOMAIN channels_ \cup {d}
        /\ \A x \in DOMAIN channels_ : channels_'[x] = channels_[x]
        /\ channels_'[d] = ChannelContext(op'.message, op'.callback)
        /\ Len(events') = 1
        /\ events'[1].type = "Channel::Connect"
        /\ events'[1].destination = d
        /\ op'.ret = ERR_IO_PENDING
        /\ client_transactions_' = client_transactions_
        /\ server_transactions_' = server_transactions_

\* OnChannelConnected with success for a context that holds an initial
\* request.
ConnectedWithInitial ==
    /\ Runs("OnChannelConnected")
    /\ op'.result = OK
    /\ channels_[op'.destination].initial_request_ # NoMessage

\* What C6 says then: the initial request, with its Via, goes to
\* Channel::Send; a client transaction of the channel is registered for it;
\* the context holds no initial request and no callback any more.
InitialSentAndCleared ==
    LET d == op'.destination
        initial == channels_[d].initial_request_
        sends == CallsOf(events', "Channel::Send", d)
    IN  /\ Cardinality(sends) = 1
        /\ \A i \in sends :
              LET sent == events'[i].arg
                  id == ClientTransactionIdOfRequest(sent)
              IN  /\ sent.via.present
                  /\ [sent EXCEPT !.via = initial.via] = initial
                  /\ id \notin DOMAIN client_transactions_
                  /\ id \in DOMAIN client_transactions_'
                  /\ client_transactions_'[id].channel = d
        /\ d \in DOMAIN channels_'
        /\ channels_'[d].initial_request_ = NoMessage
        /\ channels_'[d].initial_callback_ = NullCallback

\* C6, as the specification states it: Send of a non-ACK request to a
\* destination that has no context and whose protocol has a factory makes
\* one context with the request and the callback, starts the connect,
\* returns pending and makes no transaction; on OnChannelConnected with
\* success the initial request is sent with a client transaction made for
\* it, and the initial request and callback of the context are cleared.
C6_AsStated ==
    [][ /\ FirstSend => FirstSendStashes
        /\ ConnectedWithInitial => InitialSentAndCleared
      ]_vars

\* C6, amended: the first part holds when the factory makes the channel; if
\* the factory fails, Send returns the factory's error and nothing changes.
\* The second part holds when Channel::Send returns OK or pending; if it
\* returns an error the context, with the transaction just made, is
\* destroyed (C5).
C6_FirstSendConnects ==
    [][ /\ FirstSend =>
              IF op'.created = OK THEN FirstSendStashes
              ELSE /\ op'.ret = op'.created
                   /\ events' = <<>>
                   /\ MembersUnchanged
        /\ ConnectedWithInitial =>
              IF op'.sent \in {OK, ERR_IO_PENDING} THEN InitialSentAndCleared
              ELSE /\ op'.destination \notin DOMAIN channels_'
                   /\ client_transactions_' = client_transactions_
                   /\ CallsOf(events', "Channel::Send", op'.destination) # {}
      ]_vars

\* C6, witness: the channel connected and the initial request was sent.
C6_Witness ==
    /\ op.name = "OnChannelConnected"
    /\ op.result = OK
    /\ op.sent \in {OK, ERR_IO_PENDING}
    /\ CallsOf(events, "Channel::Send", op.destination) # {}
    /\ op.destination \in DOMAIN channels_
    /\ channels_[op.destination].initial_request_ = NoMessage
    /\ channels_[op.destination].refs_ = 1

\* C7: Send of an outgoing ACK whose next hop has no context returns
\* ERR_ABORTED, calls nobody and leaves the channel map, the transaction
\* maps and the reference counts as they were.
C7_AckOpensNothing ==
    [][ ( /\ Runs("Send")
          /\ isaRequest(op'.message)
          /\ op'.message.direction = "Outgoing"
          /\ op'.message.method = "ACK"
          /\ ~IsEmpty(op'.destination)
          /\ op'.destination \notin DOMAIN channels_ ) =>
            /\ op'.ret = ERR_ABORTED
            /\ events' = <<>>
            /\ MembersUnchanged
      ]_vars

\* C7, witness: an ACK was refused although a factory of its protocol is
\* registered.
C7_Witness ==
    /\ op.name = "Send"
    /\ op.message.kind = "request"
    /\ op.message.method = "ACK"
    /\ op.ret = ERR_ABORTED
    /\ op.destination.protocol \in factories_

\* C8: Send returns the routing errors itself and changes nothing: a message
\* that is not outgoing gets ERR_UNEXPECTED, an outgoing message without a
\* next hop (request without endpoint, response without Via) gets
\* ERR_INVALID_ARGUMENT, an outgoing request whose protocol has no factory
\* gets ERR_ADDRESS_UNREACHABLE (ERR_ABORTED if it is an ACK); no call is
\* made, no context and no transaction is created, no count changes.
C8_RoutingErrors ==
    [][ Runs("Send") =>
          LET m == op'.message
              d == GetMessageEndPoint(m)
              refused(code) ==
                  /\ op'.ret = code
                  /\ events' = <<>>
                  /\ MembersUnchanged
          IN  /\ m.direction # "Outgoing" => refused(ERR_UNEXPECTED)
              /\ (m.direction = "Outgoing" /\ IsEmpty(d))
                    => refused(ERR_INVALID_ARGUMENT)
              /\ ( /\ m.direction = "Outgoing"
                   /\ isaRequest(m)
                   /\ ~IsEmpty(d)
                   /\ d.protocol \notin factories_ )
                    => refused(IF m.method = "ACK" THEN ERR_ABORTED
                               ELSE ERR_ADDRESS_UNREACHABLE)
      ]_vars

\* C8, witness: a request was refused for want of a factory while a channel
\* of the other protocol is open.
C8_Witness ==
    /\ op.name = "Send"
    /\ op.ret = ERR_ADDRESS_UNREACHABLE
    /\ channels_ # EmptyMap

\* C9: Send of an outgoing response creates no context and no transaction;
\* if a server transaction has the id of the response, the response goes to
\* that transaction and to nobody else; else it goes to the channel of the
\* next hop of its topmost Via if that channel exists, and else Send
\* returns ERR_SOCKET_NOT_CONNECTED.
C9_SendOfResponse ==
    [][ ( /\ Runs("Send")
          /\ ~isaRequest(op'.message)
          /\ op'.message.direction = "Outgoing" ) =>
            LET m == op'.message
                id == ServerTransactionIdOfResponse(m)
                d == GetMessageEndPoint(m)
            IN  /\ MembersUnchanged
                /\ IF id \in DOMAIN server_transactions_
                   THEN /\ Len(events') = 1
                        /\ events'[1].type = "ServerTransaction::Send"
                        /\ events'[1].arg = id
                   ELSE IF ~IsEmpty(d) /\ d \in DOMAIN channels_
                   THEN /\ Len(events') = 1
                        /\ events'[1].type = "Channel::Send"
                        /\ events'[1].destination = d
                        /\ events'[1].arg = m
                   ELSE /\ events' = <<>>
                        /\ ~IsEmpty(d) => op'.ret = ERR_SOCKET_NOT_CONNECTED
      ]_vars

\* C9, witness: a response was handed to its server transaction.
C9_Witness ==
    /\ op.name = "Send"
    /\ op.message.kind = "response"
    /\ Len(events) = 1
    /\ events[1].type = "ServerTransaction::Send"

\* C10: an inbound response changes neither the channel map nor the
\* transaction maps nor the counts; if no client transaction has its id, no
\* call is made at all (the delegate hears nothing); if one has, the
\* response goes to that transaction and to nobody else.
C10_UnmatchedResponse ==
    [][ (Runs("OnIncomingMessage") /\ ~isaRequest(op'.message)) =>
            LET id == ClientTransactionIdOfResponse(op'.message)
            IN  /\ MembersUnchanged
                /\ IF id \in DOMAIN client_transactions_
                   THEN /\ Len(events') = 1
                        /\ events'[1].type =
                              "ClientTransaction::HandleIncomingResponse"
                        /\ events'[1].arg = id
                   ELSE events' = <<>>
      ]_vars

\* C10, witness: a response was dropped while another client transaction
\* was waiting for its own.
C10_Witness ==
    /\ op.name = "OnIncomingMessage"
    /\ op.message.kind = "response"
    /\ events = <<>>
    /\ client_transactions_ # EmptyMap

\* C11: OnTransactionTerminated for a registered transaction removes that
\* transaction, and no other, from its map and from the transaction set of
\* its context, decrements the count of that context by one and closes the
\* transaction; the other transactions, the other contexts and the other
\* fields of the context (the idle timer of C3 apart) stay as they were.
C11_TerminatedRemovesOne ==
    [][ Runs("OnTransactionTerminated") =>
          LET d == op'.destination
              removed == (DOMAIN client_transactions_
                            \cup DOMAIN server_transactions_)
                         \ (DOMAIN client_transactions_'
                            \cup DOMAIN server_transactions_')
          IN  /\ Cardinality(removed) = 1
              /\ \A id \in removed :
                    /\ client_transactions_' = Erase(client_transactions_, id)
                    /\ server_transactions_' = Erase(server_transactions_, id)
                    /\ d \in DOMAIN channels_
                    /\ id \in channels_[d].transactions_
                    /\ channels_' =
                          [channels_ EXCEPT
                             ![d].transactions_ = @ \ {id},
                             ![d].refs_ = @ - 1,
                             ![d].timer_ = channels_'[d].timer_]
                    /\ Len(events') = 1
                    /\ events'[1].type \in {"ClientTransaction::Close",
                                            "ServerTransaction::Close"}
                    /\ events'[1].arg = id
      ]_vars

\* C11, witness: one of two transactions of a channel terminated.
C11_Witness ==
    /\ op.name = "OnTransactionTerminated"
    /\ op.destination \in DOMAIN channels_
    /\ channels_[op.destination].refs_ = 1
    /\ Cardinality(channels_[op.destination].transactions_) = 1

---------------------------------------------------------------------------
(* The state machines of the transactions (RFC 3261 section 17).  The       *)
(* transaction classes are outside the slice: the machines follow the       *)
(* project's description of them.  A transaction tells the network layer    *)
(* of its end by OnTransactionTerminated, from within the event that ends   *)
(* it.                                                                      *)

Terminated == "Terminated"

\* The method in a transaction id.
MethodOfId(id) ==
    IF IsClientId(id) THEN id[3] ELSE IF Len(id) = 4 THEN id[4] ELSE id[6]

\* The variant of the transaction the factory makes for an id.
VariantOf(id) ==
    IF IsClientId(id)
    THEN IF MethodOfId(id) = "INVITE" THEN "ClientInvite" ELSE "ClientNonInvite"
    ELSE IF MethodOfId(id) = "INVITE" THEN "ServerInvite" ELSE "ServerNonInvite"

\* The state a transaction is in after Start.
InitialState(variant) ==
    CASE variant = "ClientInvite" -> "Calling"
      [] variant = "ClientNonInvite" -> "Trying"
      [] variant = "ServerInvite" -> "Proceeding"
      [] OTHER -> "Trying"

\* What can happen to a transaction: a response of a class (received by a
\* client transaction, sent through a server transaction), a request
\* (a retransmission or an ACK, received by a server transaction), a timer
\* firing, a transport error, Close.
ResponseClasses == {"1xx", "2xx", "3xx-6xx"}
TimerNames == {"retry", "timeout", "terminate", "provisional"}
TransactionInputs ==
    ResponseClasses \cup TimerNames
        \cup {"request", "ACK", "transport error", "close"}

\* The timers that are scheduled in a state: retry is timer A, E or G,
\* timeout is timer B, F or H, terminate is timer D, K, J or I.
ScheduledTimers(variant, state) ==
    CASE variant \in {"ClientInvite", "ClientNonInvite"}
            /\ state \in {"Calling", "Trying"} -> {"retry", "timeout"}
      [] variant \in {"ClientInvite", "ClientNonInvite"}
            /\ state = "Proceeding" -> {"timeout"}
      [] variant = "ServerInvite" /\ state = "Proceeding" -> {"provisional"}
      [] variant = "ServerInvite" /\ state = "Completed" -> {"retry", "timeout"}
      [] state \in {"Completed", "Confirmed"} -> {"terminate"}
      [] OTHER -> {}

\* The state after `input`.  Terminated is never left.
Transition(variant, state, input) ==
    IF state = Terminated THEN Terminated
    ELSE IF input \in {"transport error", "close"} THEN Terminated
    ELSE IF input \in {"timeout", "terminate"}
    THEN IF input \in ScheduledTimers(variant, state) THEN Terminated ELSE state
    ELSE IF variant = "ClientNonInvite"
    THEN CASE input = "1xx" /\ state = "Trying" -> "Proceeding"
           [] input \in {"2xx", "3xx-6xx"} /\ state \in {"Trying", "Proceeding"}
                -> "Completed"
           [] OTHER -> state
    ELSE IF variant = "ClientInvite"
    THEN CASE input = "1xx" /\ state = "Calling" -> "Proceeding"
           [] input = "2xx" /\ state \in {"Calling", "Proceeding"} -> Terminated
           [] input = "3xx-6xx" /\ state \in {"Calling", "Proceeding"}
                -> "Completed"
           [] OTHER -> state
    ELSE IF variant = "ServerNonInvite"
    THEN CASE input = "1xx" /\ state = "Trying" -> "Proceeding"
           [] input \in {"2xx", "3xx-6xx"} /\ state \in {"Trying", "Proceeding"}
                -> "Completed"
           [] OTHER -> state
    ELSE CASE input = "2xx" /\ state = "Proceeding" -> Terminated
           [] input = "3xx-6xx" /\ state = "Proceeding" -> "Completed"
           [] input = "ACK" /\ state = "Completed" -> "Confirmed"
           [] OTHER -> state

\* A transaction object as Start leaves it.  `told` counts the
\* OnTransactionTerminated calls the network layer got for the object,
\* `closed` is whether Close was called.
StartedTransaction(id) ==
    [variant |-> VariantOf(id), state |-> InitialState(VariantOf(id)),
     told |-> 0, closed |-> FALSE]

\* The objects after the Start and Close calls of a handler, in call order.
\* Every run of OnTransactionTerminated ends in the Close of the transaction
\* it looked up, and Close is called from nowhere else.
RECURSIVE Settle(_, _)
Settle(t, evs) ==
    IF evs = <<>> THEN t
    ELSE LET e == Head(evs)
             t1 == IF e.type \in {"ClientTransaction::Start",
                                  "ServerTransaction::Start"}
                   THEN Put(t, e.arg, StartedTransaction(e.arg))
                   ELSE IF e.type \in {"ClientTransaction::Close",
                                       "ServerTransaction::Close"}
                           /\ e.arg \in DOMAIN t
                   THEN [t EXCEPT ![e.arg].told = @ + 1,
                                  ![e.arg].closed = TRUE,
                                  ![e.arg].state =
                                      Transition(t[e.arg].variant, @, "close")]
                   ELSE t
         IN  Settle(t1, Tail(evs))

\* Transaction `id` gets `input` while the handler is at `s`: it moves, and
\* if that is its end it calls OnTransactionTerminated of the network layer.
Deliver(s, t, id, input) ==
    LET next == Transition(t[id].variant, t[id].state, input)
        ends == next = Terminated /\ t[id].state # Terminated
        s1 == IF ends THEN OnTransactionTerminated(s, id) ELSE s
    IN  [s |-> s1, tx |-> [t EXCEPT ![id].state = next]]

---------------------------------------------------------------------------
(* The network layer with the state machines of its transactions, on the    *)
(* channel of one peer.                                                     *)

\* The requests the upper layer sends in this specification.
TransactionRequests ==
    {Request("Outgoing", m, UdpPeer, EmptyEndPoint, NoVia) :
        m \in {"INVITE", "OPTIONS"}}

\* The messages the peer delivers: an INVITE and its ACK with a branch of
\* RFC 3261 or an older one, an OPTIONS, and responses.
TransactionReceived ==
    {Request("Incoming", m, EmptyEndPoint, EmptyEndPoint, via) :
        m \in {"INVITE", "ACK"}, via \in PeerVias(UdpPeer)}
    \cup {Request("Incoming", "OPTIONS", EmptyEndPoint, EmptyEndPoint,
                  ViaParam("UDP", PeerSentBy, Branch1))}
    \cup ReceivedResponses

\* The responses the upper layer sends.
TransactionResponses ==
    {Response("Outgoing", m, via, "") :
        m \in {"INVITE", "OPTIONS"},
        via \in {StampServerTopmostVia(r, UdpPeer).via :
                   r \in {x \in TransactionReceived : isaRequest(x)}}}

\* The handler ran to `r.s` and the transactions it called are as in `r.tx`.
TransactionCommit(name, destination, message, r) ==
    /\ Commit(name, destination, message, NullCallback, NoAnswer, r.s)
    /\ transaction_state' = Settle(r.tx, r.s.events)
    /\ UNCHANGED <<posted_, destroyed, ssl_cert_error_transactions_>>

\* The handler called no transaction that the specification follows.
NoDelivery(s) == [s |-> s, tx |-> transaction_state]

\* The transaction the handler called last, if it called one by `type`.
LastCalled(s, type) ==
    IF s.events # <<>> /\ s.events[Len(s.events)].type = type
    THEN {s.events[Len(s.events)].arg}
    ELSE {}

\* NetworkLayer::Send of a request on the connected channel.
TransactionSend ==
    /\ UdpPeer \in DOMAIN channels_
    /\ channels_[UdpPeer].connected
    /\ \E request \in TransactionRequests :
       \E branch \in CreateBranch(Members, request) :
          /\ FreshFor(Members, request, branch)
          /\ TransactionCommit("Send", UdpPeer, request,
                NoDelivery(NetworkLayerSend(Members, request, NullCallback,
                                            branch, OK, OK)))

\* OnIncomingMessage: a request that matches goes to its server
\* transaction, a response that matches to its client transaction.
TransactionIncoming ==
    /\ UdpPeer \in DOMAIN channels_
    /\ channels_[UdpPeer].connected
    /\ \E message \in TransactionReceived :
       LET s == OnIncomingMessage(Members, UdpPeer, message)
           servers == LastCalled(s, "ServerTransaction::HandleIncomingRequest")
           clients == LastCalled(s, "ClientTransaction::HandleIncomingResponse")
       IN  \E input \in IF clients # {} THEN ResponseClasses
                        ELSE IF message.method = "ACK" THEN {"ACK"}
                        ELSE {"request"} :
              TransactionCommit("OnIncomingMessage", UdpPeer, message,
                 IF servers \cup clients = {} THEN NoDelivery(s)
                 ELSE Deliver(s, transaction_state,
                              CHOOSE id \in servers \cup clients : TRUE, input))

\* NetworkLayer::Send of a response: one that matches goes through its
\* server transaction.
TransactionSendResponse ==
    \E response \in TransactionResponses :
       LET s == NetworkLayerSend(Members, response, NullCallback, NoBranch,
                                 OK, OK)
           servers == LastCalled(s, "ServerTransaction::Send")
       IN  \E input \in IF servers # {} THEN ResponseClasses ELSE {"1xx"} :
              TransactionCommit("Send", GetMessageEndPoint(response), response,
                 IF servers = {} THEN NoDelivery(s)
                 ELSE Deliver(s, transaction_state,
                              CHOOSE id \in servers : TRUE, input))

\* A scheduled timer of a registered transaction fires.
TimerFired(id) ==
    /\ Registered(Members, id)
    /\ \E timer \in ScheduledTimers(transaction_state[id].variant,
                                    transaction_state[id].state) :
          TransactionCommit("TimerFired", UdpPeer, NoMessage,
             Deliver(Members, transaction_state, id, timer))

\* The channel reports an error to a registered transaction.
TransportError(id) ==
    /\ Registered(Members, id)
    /\ TransactionCommit("TransportError", UdpPeer, NoMessage,
          Deliver(Members, transaction_state, id, "transport error"))

\* Something reaches a transaction object after its end: a message or a
\* timer callback that was under way, an error, another Close.
LateEvent(id) ==
    /\ transaction_state[id].state = Terminated
    /\ \E input \in TransactionInputs :
          TransactionCommit("LateEvent", UdpPeer, NoMessage,
             Deliver(Members, transaction_state, id, input))

\* The channel reports that it was closed: the cascade ends the
\* transactions of the context.
TransactionChannelClosed ==
    /\ UdpPeer \in DOMAIN channels_
    /\ channels_[UdpPeer].connected
    /\ TransactionCommit("OnChannelClosed", UdpPeer, NoMessage,
          NoDelivery(OnChannelClosed(Members, UdpPeer, ERR_CONNECTION_RESET)))

TransactionNext ==
    \/ RegisterChannelFactory("UDP")
    \/ Connect(UdpPeer)
    \/ ChannelConnected(UdpPeer)
    \/ TransactionSend
    \/ TransactionIncoming
    \/ TransactionSendResponse
    \/ \E id \in DOMAIN transaction_state : TimerFired(id)
    \/ \E id \in DOMAIN transaction_state : TransportError(id)
    \/ \E id \in DOMAIN transaction_state : LateEvent(id)
    \/ TransactionChannelClosed
    \/ Returned

TransactionSpec == Init /\ [][TransactionNext]_vars

\* C12: Terminated is never left: an object in Terminated stays there
\* whatever reaches it, until Start makes a new object for its id.  Over
\* the life of a transaction the network layer gets OnTransactionTerminated
\* for it at most once, and exactly once when the transaction has ended:
\* a registered transaction has not ended and was not reported, one that
\* left the maps is in Terminated and was reported once.  The transactions
\* that the cascade of a closed channel removes were reported once each.
C12_TerminatedOnce ==
    [][ /\ \A id \in DOMAIN transaction_state :
              ( /\ transaction_state[id].state = Terminated
                /\ CallsOfType(events', "ClientTransaction::Start") = {}
                /\ CallsOfType(events', "ServerTransaction::Start") = {} )
                 => /\ transaction_state'[id].state = Terminated
                    /\ transaction_state'[id].told = transaction_state[id].told
        /\ \A id \in DOMAIN transaction_state' :
              LET t == transaction_state'[id]
                  registered == id \in DOMAIN client_transactions_'
                                   \cup DOMAIN server_transactions_'
              IN  /\ t.told <= 1
                  /\ registered <=> t.state # Terminated
                  /\ registered <=> t.told = 0
        /\ Runs("OnChannelClosed") =>
              \A id \in BoundTo(Members, op'.destination) :
                 /\ transaction_state'[id].state = Terminated
                 /\ transaction_state'[id].told = 1
      ]_vars

\* C12, witness: an event reached a transaction that had ended by itself
\* and had been reported.
C12_Witness ==
    /\ op.name = "LateEvent"
    /\ \E id \in DOMAIN transaction_state :
          /\ transaction_state[id].state = Terminated
          /\ transaction_state[id].told = 1
    /\ \E id \in DOMAIN transaction_state :
          transaction_state[id].state = "Completed"

---------------------------------------------------------------------------
(* Dismissing a connection attempt, the tasks it posts, and the end of the  *)
(* network layer.                                                           *)

\* The tasks that may wait in the message loop.
MaxPosted == 1

\* NetworkLayer::PostOnChannelClosed: a task that calls OnChannelClosed of
\* the delegate is posted.  The task holds the delegate itself
\* (base::Unretained(delegate_)), not a weak pointer to the network layer.
PostOnChannelClosed(s, destination) ==
    Call(s, "MessageLoop::PostTask", destination, "Delegate::OnChannelClosed")

\* DismissLastConnectionAttempt that tells the delegate itself, before it
\* returns.  C39_Dismiss tells the two apart.
DismissLastConnectionAttemptTellsAtOnce(s, destination) ==
    IF ~GetChannelContext(s, destination)
    THEN Return(s, ERR_CONNECTION_CLOSED)
    ELSE LET s1 == DestroyChannelContext(s, destination)
             s2 == Call(s1, "Channel::Close", destination, NoMessage)
         IN  Return(Call(s2, "Delegate::OnChannelClosed", destination, OK), OK)

\* NetworkLayer::DismissLastConnectionAttempt
DismissLastConnectionAttempt(s, destination) ==
    IF ~GetChannelContext(s, destination)
    THEN Return(s, ERR_CONNECTION_CLOSED)
    ELSE LET s1 == DestroyChannelContext(s, destination)
             s2 == Call(s1, "Channel::Close", destination, NoMessage)
         IN  Return(PostOnChannelClosed(s2, destination), OK)

\* The destinations of the tasks a handler posted, in the order of posting.
RECURSIVE PostedBy(_)
PostedBy(evs) ==
    IF evs = <<>> THEN <<>>
    ELSE (IF Head(evs).type = "MessageLoop::PostTask"
          THEN <<Head(evs).destination>> ELSE <<>>) \o PostedBy(Tail(evs))

\* The handler ran to `s`; the tasks it posted wait in the message loop.
DoneWithTasks(name, destination, s) ==
    /\ ~destroyed
    /\ Len(posted_) + Len(PostedBy(s.events)) <= MaxPosted
    /\ Commit(name, destination, NoMessage, NullCallback, NoAnswer, s)
    /\ posted_' = posted_ \o PostedBy(s.events)
    /\ UNCHANGED <<transaction_state, destroyed, ssl_cert_error_transactions_>>

\* The upper layer dismisses the connection attempt to `destination`.
Dismiss(destination) ==
    DoneWithTasks("DismissLastConnectionAttempt", destination,
                  DismissLastConnectionAttempt(Members, destination))

\* The message loop runs the oldest posted task, whether or not the network
\* layer that posted it still exists.
PostedTask ==
    /\ op = Idle
    /\ posted_ # <<>>
    /\ posted_' = Tail(posted_)
    /\ events' = Call(Members, "Delegate::OnChannelClosed", Head(posted_),
                      OK).events
    /\ op' = [Idle EXCEPT !.name = "PostedTask", !.destination = Head(posted_)]
    /\ UNCHANGED <<factories_, channels_, client_transactions_,
                   server_transactions_, transaction_state, destroyed,
                   ssl_cert_error_handler_factory_,
                   ssl_cert_error_transactions_, arguments, results,
                   sip_message, now>>

\* The loop of ~NetworkLayer: DestroyChannelContext for the first context
\* of the map, until the map is empty.
RECURSIVE DestroyAll(_)
DestroyAll(s) ==
    IF DOMAIN s.channels = {} THEN s
    ELSE DestroyAll(DestroyChannelContext(s,
                       CHOOSE d \in DOMAIN s.channels : TRUE))

\* NetworkLayer::~NetworkLayer
Destructor ==
    /\ ~destroyed
    /\ Commit("~NetworkLayer", EmptyEndPoint, NoMessage, NullCallback, NoAnswer,
              DestroyAll(Members))
    /\ destroyed' = TRUE
    /\ ssl_cert_error_transactions_' = <<>>
    /\ UNCHANGED <<transaction_state, posted_>>

ShutdownNext ==
    \/ \E protocol \in Protocols : RegisterChannelFactory(protocol)
    \/ \E destination \in Destinations : Connect(destination)
    \/ \E destination \in Destinations : ChannelConnected(destination)
    \/ SendOfRequest
    \/ \E destination \in Destinations : IncomingMessage(destination)
    \/ \E destination \in Destinations : ChannelClosed(destination)
    \/ \E destination \in Destinations : Dismiss(destination)
    \/ PostedTask
    \/ Destructor
    \/ Returned

ShutdownSpec == Init /\ [][ShutdownNext]_vars

\* C13: the destructor leaves the channel map and both transaction maps
\* empty, closes every transaction and every channel, and from its start on
\* the delegate is called no more: not by the destructor, and not by a task
\* that was posted before it.
C13_ShutdownIsSilent ==
    [][ /\ Runs("~NetworkLayer") =>
              /\ channels_' = EmptyMap
              /\ client_transactions_' = EmptyMap
              /\ server_transactions_' = EmptyMap
              /\ \A id \in DOMAIN client_transactions_
                              \cup DOMAIN server_transactions_ :
                    \E i \in DOMAIN events' :
                       /\ events'[i].type \in {"ClientTransaction::Close",
                                               "ServerTransaction::Close"}
                       /\ events'[i].arg = id
              /\ \A d \in DOMAIN channels_ :
                    CallsOf(events', "Channel::Close", d) # {}
              /\ CallsOfDelegate(events') = {}
        /\ destroyed => CallsOfDelegate(events') = {}
      ]_vars

\* The part of C13 that the destructor keeps: the maps end empty, every
\* transaction is closed and the destructor itself does not call the
\* delegate.
ShutdownEmptiesMaps ==
    [][ Runs("~NetworkLayer") =>
              /\ channels_' = EmptyMap
              /\ client_transactions_' = EmptyMap
              /\ server_transactions_' = EmptyMap
              /\ Cardinality(CallsOfType(events', "ClientTransaction::Close")
                     \cup CallsOfType(events', "ServerTransaction::Close"))
                   = Cardinality(DOMAIN client_transactions_
                                   \cup DOMAIN server_transactions_)
              /\ CallsOfDelegate(events') = {}
      ]_vars

\* The delegate is called after the destructor ran.
CalledAfterShutdown ==
    destroyed /\ CallsOfDelegate(events) # {}

---------------------------------------------------------------------------
(* A delegate that calls Send from within OnChannelConnected.               *)

\* What the delegate sends from within the callback: a request to the
\* channel that has just connected.
ReentrantRequests ==
    {Request("Outgoing", m, UdpPeer, EmptyEndPoint, NoVia) :
        m \in {"INVITE", "OPTIONS"}}

\* The delegate calls NetworkLayer::Send while the handler is at `s`.
DelegateSends(s, request, sent) ==
    NetworkLayerSend(s, request, NullCallback,
                     CHOOSE b \in CreateBranch(s, request) : TRUE, OK, sent)

\* OnChannelConnected with success, where the delegate sends `request` from
\* within its OnChannelConnected.
OnChannelConnectedReentrant(s, destination, request, sent) ==
    LET s1 == DelegateSends(OnChannelConnectedNotify(s, destination, OK),
                            request, OK)
        initial == s1.channels[destination].initial_request_
        branch == IF initial # NoMessage
                  THEN CHOOSE b \in CreateBranch(s1, initial) : TRUE
                  ELSE NoBranch
    IN  OnChannelConnectedRest(s1, destination, OK, branch, sent)

\* The channel of `destination` reports success to a delegate that sends.
ChannelConnectedReentrant(destination) ==
    /\ destination \in DOMAIN channels_
    /\ ~channels_[destination].connected
    /\ \E request \in {r \in ReentrantRequests :
                         GetMessageEndPoint(r) = destination},
          sent \in {OK, ERR_IO_PENDING} :
          Done("OnChannelConnected", destination, request, NullCallback,
               Answers(OK, OK, sent),
               OnChannelConnectedReentrant(Members, destination, request, sent))

ReentrantNext ==
    \/ \E protocol \in Protocols : RegisterChannelFactory(protocol)
    \/ \E destination \in Destinations : Connect(destination)
    \/ SendOfRequest
    \/ SendOfResponse
    \/ \E destination \in Destinations : ChannelConnected(destination)
    \/ \E destination \in Destinations : ChannelConnectedReentrant(destination)
    \/ \E destination \in Destinations : IncomingMessage(destination)
    \/ \E id \in DOMAIN client_transactions_ \cup DOMAIN server_transactions_ :
          TransactionTerminated(id)
    \/ Returned

ReentrantSpec == Init /\ [][ReentrantNext]_vars

\* The request in `sent` is `initial` as SendRequestUsingChannelContext
\* hands it to the channel: with the Via it stamped if there was none.
IsInitial(sent, initial) ==
    /\ isaRequest(sent)
    /\ [sent EXCEPT !.via = initial.via] = initial

\* C14: the channel gets the messages in the order of the Send calls.  A
\* handler hands a message to the channel within the Send that brought it,
\* except the initial request of a context, whose Send returned pending in
\* an earlier step: so whenever a context holds an initial request, the
\* next message its channel gets is that request, before any message of a
\* later Send, be it called from within a callback of the delegate.
C14_SendOrder ==
    [][ \A d \in DOMAIN channels_ :
           LET initial == channels_[d].initial_request_
               sends == CallsOf(events', "Channel::Send", d)
           IN  (initial # NoMessage /\ sends # {}) =>
                  \E i \in sends :
                     /\ \A j \in sends : i <= j
                     /\ IsInitial(events'[i].arg, initial)
      ]_vars

\* The delegate's request went to the channel before the initial request
\* of the context.
SentBeforeInitial ==
    /\ op.name = "OnChannelConnected"
    /\ op.message # NoMessage
    /\ Cardinality(CallsOf(events, "Channel::Send", op.destination)) = 2

\* C15: the network layer calls Send of a channel only while the channel is
\* connected, on every path: Send of a request, the initial request after
\* the connect, the direct Send of a response.
C15_SendOnlyConnected ==
    \A i \in CallsOfType(events, "Channel::Send") : events[i].connected

\* The two paths that test is_connected(): a request reaches Channel::Send
\* only on a connected channel.
RequestsSentConnected ==
    \A i \in CallsOfType(events, "Channel::Send") :
        isaRequest(events[i].arg) => events[i].connected

---------------------------------------------------------------------------
(* Certificate errors of a TLS channel.                                     *)

\* The SSLCertErrorTransaction objects the vector may hold.
MaxCertErrors == 2

\* What SSLCertErrorTransaction::HandleSSLCertError returns, and what its
\* callback is run with.
HandleResults == {OK, ERR_IO_PENDING, ERR_FAILED}
CompleteResults == {OK, ERR_FAILED}

\* What the handler decided, as the transaction tells it: client_cert() is
\* a certificate or null, is_accepted() is true or false.
NoCertificate == "null"
Decisions ==
    [client_cert : {NoCertificate, "certificate"}, is_accepted : BOOLEAN]

\* What Channel::ReconnectIgnoringLastError and
\* Channel::ReconnectWithCertificate return: the handshake is started again
\* and completes later, or the call ends at once with a result.
ReconnectResults == {ERR_IO_PENDING, OK, ERR_FAILED}

\* An SSLCertErrorTransaction of the vector: the destination it keeps and
\* whether the handler still holds its callback.
CertErrorTransaction(destination, waiting) ==
    [destination |-> destination, waiting |-> waiting]

\* The vector without its element `i`.
EraseAt(txs, i) == SubSeq(txs, 1, i - 1) \o SubSeq(txs, i + 1, Len(txs))

\* NetworkLayer::ReconnectIgnoringLastError
ReconnectIgnoringLastError(s, destination, reconnect) ==
    IF ~GetChannelContext(s, destination)
    THEN Return(s, ERR_CONNECTION_CLOSED)
    ELSE Return(Call(s, "Channel::ReconnectIgnoringLastError", destination,
                     reconnect), reconnect)

\* NetworkLayer::ReconnectWithCertificate
ReconnectWithCertificate(s, destination, reconnect) ==
    IF ~GetChannelContext(s, destination)
    THEN Return(s, ERR_CONNECTION_CLOSED)
    ELSE Return(Call(s, "Channel::ReconnectWithCertificate", destination,
                     reconnect), reconnect)

\* OnSSLCertErrorTransactionComplete without the reading of the decision:
\* the connection attempt is dismissed whatever the handler decided.
\* C16_DecisionApplied tells the two apart.
OnSSLCertErrorTransactionCompleteDismisses(s, txs, i, rv, decision, reconnect) ==
    [s |-> Return(DismissLastConnectionAttempt(s, txs[i].destination), "void"),
     txs |-> EraseAt(txs, i)]

\* NetworkLayer::OnSSLCertErrorTransactionComplete for element `i` of the
\* vector.  The result is the members and the vector it leaves.
OnSSLCertErrorTransactionComplete(s, txs, i, rv, decision, reconnect) ==
    LET destination == txs[i].destination
        with_cert == rv = OK /\ decision.client_cert # NoCertificate
        accepted == rv = OK /\ ~with_cert /\ decision.is_accepted
        s1 == IF rv = OK
              THEN Call(s, "SSLCertErrorTransaction::client_cert", destination,
                        decision.client_cert)
              ELSE s
        s2 == IF rv = OK /\ ~with_cert
              THEN Call(s1, "SSLCertErrorTransaction::is_accepted",
                        destination,
                        IF decision.is_accepted THEN "true" ELSE "false")
              ELSE s1
        s3 == IF with_cert
              THEN ReconnectWithCertificate(s2, destination, reconnect)
              ELSE IF accepted
              THEN ReconnectIgnoringLastError(s2, destination, reconnect)
              ELSE Return(s2, rv)
    IN  IF (with_cert \/ accepted) /\ s3.ret = ERR_IO_PENDING
        THEN [s |-> Return(s3, "void"),
              txs |-> [txs EXCEPT ![i].waiting = FALSE]]
        ELSE [s |-> Return(DismissLastConnectionAttempt(s3, destination),
                           "void"),
              txs |-> EraseAt(txs, i)]

\* NetworkLayer::OnSSLCertificateError.  `rv` is what HandleSSLCertError
\* returns; any result other than OK and ERR_IO_PENDING ends the handler
\* with nothing more done.
OnSSLCertificateError(s, txs, destination, rv, decision, reconnect) ==
    IF ssl_cert_error_handler_factory_
    THEN LET pushed == Append(txs, CertErrorTransaction(destination,
                                      rv = ERR_IO_PENDING))
             s1 == Call(s, "SSLCertErrorTransaction::HandleSSLCertError",
                        destination, rv)
         IN  IF rv = OK
             THEN OnSSLCertErrorTransactionComplete(s1, pushed, Len(pushed),
                      OK, decision, reconnect)
             ELSE [s |-> s1, txs |-> pushed]
    ELSE [s |-> Return(DismissLastConnectionAttempt(s, destination), "void"),
          txs |-> txs]

\* The handler ran to `r.s` and left the vector as `r.txs`; the tasks it
\* posted wait in the message loop.
DoneWithCertError(name, destination, rv, r) ==
    /\ ~destroyed
    /\ Len(posted_) + Len(PostedBy(r.s.events)) <= MaxPosted
    /\ Commit(name, destination, NoMessage, NullCallback,
              Answers(rv, OK, OK), r.s)
    /\ posted_' = posted_ \o PostedBy(r.s.events)
    /\ ssl_cert_error_transactions_' = r.txs
    /\ UNCHANGED <<transaction_state, destroyed>>

\* The TLS channel of `destination` reports a certificate error while it
\* connects.
SSLCertificateError(destination) ==
    /\ destination.protocol = "TLS"
    /\ destination \in DOMAIN channels_
    /\ ~channels_[destination].connected
    /\ Len(ssl_cert_error_transactions_) < MaxCertErrors
    /\ \E rv \in HandleResults, decision \in Decisions,
          reconnect \in ReconnectResults :
          DoneWithCertError("OnSSLCertificateError", destination, rv,
              OnSSLCertificateError(Members, ssl_cert_error_transactions_,
                                    destination, rv, decision, reconnect))

\* The handler runs the callback of a transaction it kept.
SSLCertErrorTransactionComplete ==
    \E i \in DOMAIN ssl_cert_error_transactions_ :
        /\ ssl_cert_error_transactions_[i].waiting
        /\ \E rv \in CompleteResults, decision \in Decisions,
              reconnect \in ReconnectResults :
              DoneWithCertError("OnSSLCertErrorTransactionComplete",
                  ssl_cert_error_transactions_[i].destination, rv,
                  OnSSLCertErrorTransactionComplete(Members,
                      ssl_cert_error_transactions_, i, rv, decision,
                      reconnect))

\* The network layer as its constructor leaves it, with the settings'
\* handler factory or without one.
SslInit ==
    /\ factories_ = {}
    /\ channels_ = EmptyMap
    /\ client_transactions_ = EmptyMap
    /\ server_transactions_ = EmptyMap
    /\ events = <<>>
    /\ op = Idle
    /\ transaction_state = EmptyMap
    /\ posted_ = <<>>
    /\ destroyed = FALSE
    /\ now = 0
    /\ ssl_cert_error_handler_factory_ \in BOOLEAN
    /\ ssl_cert_error_transactions_ = <<>>
    /\ arguments = NoArguments
    /\ results = EmptyMap
    /\ sip_message = NoMessage

SslNext ==
    \/ \E protocol \in Protocols : RegisterChannelFactory(protocol)
    \/ \E destination \in Destinations : Connect(destination)
    \/ SendOfRequest
    \/ \E destination \in Destinations : ChannelConnected(destination)
    \/ \E destination \in Destinations : ChannelClosed(destination)
    \/ \E destination \in Destinations : SSLCertificateError(destination)
    \/ SSLCertErrorTransactionComplete
    \/ PostedTask
    \/ Returned

SslSpec == SslInit /\ [][SslNext]_vars

\* The handler called `type` for `destination` once and was answered `arg`.
Asked(type, destination, arg) ==
    \E i \in CallsOf(events', type, destination) :
        /\ events'[i].arg = arg
        /\ CallsOf(events', type, destination) = {i}

\* The handler reconnected nothing.
NoReconnect ==
    /\ CallsOfType(events', "Channel::ReconnectIgnoringLastError") = {}
    /\ CallsOfType(events', "Channel::ReconnectWithCertificate") = {}

\* The handler closed the channel of `destination`: its context is
\* destroyed, the channel is closed once, and one task is posted that calls
\* OnChannelClosed of the delegate for the destination.
ChannelDismissed(destination) ==
    /\ destination \notin DOMAIN channels_'
    /\ DOMAIN channels_' = DOMAIN channels_ \ {destination}
    /\ \E i \in CallsOf(events', "Channel::Close", destination) :
          /\ CallsOfType(events', "Channel::Close") = {i}
          /\ ~events'[i].in_channels
    /\ \E i \in CallsOf(events', "MessageLoop::PostTask", destination) :
          /\ CallsOfType(events', "MessageLoop::PostTask") = {i}
          /\ events'[i].arg = "Delegate::OnChannelClosed"
    /\ posted_' = Append(posted_, destination)

\* The handler left the channel of `destination` to its new handshake.
ChannelKept(destination) ==
    /\ MembersUnchanged
    /\ CallsOfType(events', "Channel::Close") = {}
    /\ posted_' = posted_

\* The handler read the decision of the certificate error handler.
DecisionRead(destination) ==
    CallsOf(events', "SSLCertErrorTransaction::client_cert", destination) # {}

\* C16: a certificate error is handed to the handler of the settings and
\* the handler's decision is applied to the channel: a client certificate
\* leads to ReconnectWithCertificate, accept to ReconnectIgnoringLastError,
\* and reject closes the channel (context destroyed, channel closed, the
\* delegate told of the close by the posted task); without a handler the
\* connection attempt is dismissed as on reject.
C16_DecisionApplied ==
    [][ /\ Runs("OnSSLCertificateError") =>
            LET d == op'.destination
            IN  IF ssl_cert_error_handler_factory_
                THEN /\ events'[1].type =
                            "SSLCertErrorTransaction::HandleSSLCertError"
                     /\ events'[1].destination = d
                     /\ events'[1].arg = OK <=> DecisionRead(d)
                ELSE /\ ChannelDismissed(d)
                     /\ NoReconnect
                     /\ CallsOfType(events',
                           "SSLCertErrorTransaction::HandleSSLCertError") = {}
        /\ (Runs("OnSSLCertificateError")
               \/ (Runs("OnSSLCertErrorTransactionComplete")
                      /\ op'.result = OK)) =>
            LET d == op'.destination
            IN  (DecisionRead(d) /\ d \in DOMAIN channels_) =>
                  \/ /\ Asked("SSLCertErrorTransaction::client_cert", d,
                              "certificate")
                     /\ \E r \in ReconnectResults :
                           /\ Asked("Channel::ReconnectWithCertificate", d, r)
                           /\ IF r = ERR_IO_PENDING THEN ChannelKept(d)
                              ELSE ChannelDismissed(d)
                     /\ CallsOfType(events',
                           "Channel::ReconnectIgnoringLastError") = {}
                  \/ /\ Asked("SSLCertErrorTransaction::client_cert", d,
                              NoCertificate)
                     /\ Asked("SSLCertErrorTransaction::is_accepted", d,
                              "true")
                     /\ \E r \in ReconnectResults :
                           /\ Asked("Channel::ReconnectIgnoringLastError", d,
                                    r)
                           /\ IF r = ERR_IO_PENDING THEN ChannelKept(d)
                              ELSE ChannelDismissed(d)
                     /\ CallsOfType(events',
                           "Channel::ReconnectWithCertificate") = {}
                  \/ /\ Asked("SSLCertErrorTransaction::client_cert", d,
                              NoCertificate)
                     /\ Asked("SSLCertErrorTransaction::is_accepted", d,
                              "false")
                     /\ NoReconnect
                     /\ ChannelDismissed(d)
        /\ Runs("PostedTask") =>
              /\ Len(events') = 1
              /\ events'[1].type = "Delegate::OnChannelClosed"
              /\ events'[1].destination = Head(posted_)
      ]_vars

\* C16, witness: the delegate is told of the close of a channel that the
\* handler rejected after it had accepted an earlier error of a channel to
\* the same destination, whose handshake was started again.
C16_Witness ==
    /\ op.name = "PostedTask"
    /\ events # <<>>
    /\ events[1].type = "Delegate::OnChannelClosed"
    /\ ssl_cert_error_handler_factory_
    /\ \E i \in DOMAIN ssl_cert_error_transactions_ :
          ~ssl_cert_error_transactions_[i].waiting
    /\ Len(ssl_cert_error_transactions_) = 1

---------------------------------------------------------------------------
(* ServerTransactionId on an INVITE, the final response to it and the ACK   *)
(* to that response.                                                        *)

\* The topmost Via of the three: with a branch of RFC 3261, with an older
\* branch, without a branch, or no Via at all.
InviteVias ==
    {ViaParam("UDP", PeerSentBy, b) :
        b \in {Branch1, Branch2, OldBranch, NoBranch}} \cup {NoVia}

\* The tag of To: the INVITE that opens a dialog has none, the user agent
\* server puts one on its response, and the ACK repeats the tag of the
\* response.
ToTags == {"", "tt"}

WithToTag(message, tag) == [message EXCEPT !.to_tag = tag]

\* An INVITE R, an ACK A and a final response F with CSeq method INVITE.
InviteExchanges ==
    [kind : {"invite exchange"},
     request : {WithToTag(Request("Incoming", "INVITE", EmptyEndPoint,
                                  EmptyEndPoint, via), tag) :
                  via \in InviteVias, tag \in ToTags},
     ack : {WithToTag(Request("Incoming", "ACK", EmptyEndPoint,
                              EmptyEndPoint, via), tag) :
              via \in InviteVias, tag \in ToTags},
     response : {Response("Outgoing", "INVITE", via, tag) :
                   via \in InviteVias, tag \in ToTags}]

\* The three messages of an exchange.
ExchangeMessages == {"request", "ack", "response"}

ServerIdInit ==
    /\ factories_ = {}
    /\ channels_ = EmptyMap
    /\ client_transactions_ = EmptyMap
    /\ server_transactions_ = EmptyMap
    /\ events = <<>>
    /\ op = Idle
    /\ transaction_state = EmptyMap
    /\ posted_ = <<>>
    /\ destroyed = FALSE
    /\ now = 0
    /\ ssl_cert_error_handler_factory_ = FALSE
    /\ ssl_cert_error_transactions_ = <<>>
    /\ arguments \in InviteExchanges
    /\ results = EmptyMap
    /\ sip_message = NoMessage

\* ServerTransactionId is applied to one message of the exchange.
ApplyServerTransactionId(which) ==
    /\ which \notin DOMAIN results
    /\ results' = Put(results, which, ServerTransactionId(arguments[which]))
    /\ UNCHANGED <<factories_, channels_, client_transactions_,
                   server_transactions_, events, op, transaction_state,
                   posted_, destroyed, ssl_cert_error_handler_factory_,
                   ssl_cert_error_transactions_, arguments, sip_message, now>>

ServerIdNext == \E which \in ExchangeMessages : ApplyServerTransactionId(which)

ServerIdSpec == ServerIdInit /\ [][ServerIdNext]_vars

\* R, A and F carry the same top Via, Call-ID, From tag and CSeq sequence.
OneExchange ==
    /\ arguments.kind = "invite exchange"
    /\ \A m \in {arguments.ack, arguments.response} :
          /\ m.via = arguments.request.via
          /\ m.call_id = arguments.request.call_id
          /\ m.from_tag = arguments.request.from_tag
          /\ m.cseq = arguments.request.cseq

AllApplied == DOMAIN results = ExchangeMessages

\* C17: for an INVITE R, its ACK A to a non-2xx final response F, and F,
\* with the same top Via, Call-ID, From tag and CSeq sequence,
\* ServerTransactionId(R) = ServerTransactionId(A) = ServerTransactionId(F),
\* with a magic-cookie branch and with the RFC 2543 fallback identifier.
C17_SameServerTransaction ==
    (OneExchange /\ AllApplied) =>
        /\ results["request"] = results["ack"]
        /\ results["ack"] = results["response"]

\* The three identifiers agree where the branch starts with the magic
\* cookie, and in the fallback where the three To tags are the same.
ServerIdsAgreeWithCookieOrSameTag ==
    (/\ OneExchange
     /\ AllApplied
     /\ \/ StartsWith(arguments.request.via.branch, kMagicCookie)
        \/ /\ arguments.ack.to_tag = arguments.request.to_tag
           /\ arguments.response.to_tag = arguments.request.to_tag) =>
        /\ results["request"] = results["ack"]
        /\ results["ack"] = results["response"]

\* The exchange of RFC 3261 in the fallback: R without a To tag, F and A
\* with the tag of the server.
FallbackExchangeApplied ==
    /\ OneExchange
    /\ AllApplied
    /\ ~StartsWith(arguments.request.via.branch, kMagicCookie)
    /\ arguments.request.to_tag = ""
    /\ arguments.response.to_tag = "tt"
    /\ arguments.ack.to_tag = "tt"

---------------------------------------------------------------------------
(* ClientTransactionId on a request and on a response.                      *)

\* The topmost Via of a request that was sent, and of a response.
ClientVias == {UpperVia(b) : b \in {Branch1, Branch2, OldBranch, NoBranch}}

\* A request with a Via and a response: to it, to another request of the
\* same branch, or to a request of another branch.
RequestsAndResponses ==
    [kind : {"request and response"},
     request : {Request("Outgoing", m, UdpPeer, EmptyEndPoint, via) :
                  m \in Methods, via \in ClientVias},
     response : {Response("Incoming", m, via, tag) :
                   m \in Methods, via \in ClientVias, tag \in ToTags}]

ClientIdInit ==
    /\ factories_ = {}
    /\ channels_ = EmptyMap
    /\ client_transactions_ = EmptyMap
    /\ server_transactions_ = EmptyMap
    /\ events = <<>>
    /\ op = Idle
    /\ transaction_state = EmptyMap
    /\ posted_ = <<>>
    /\ destroyed = FALSE
    /\ now = 0
    /\ ssl_cert_error_handler_factory_ = FALSE
    /\ ssl_cert_error_transactions_ = <<>>
    /\ arguments \in RequestsAndResponses
    /\ results = EmptyMap
    /\ sip_message = NoMessage

\* ClientTransactionId is applied to the request or to the response.
ApplyClientTransactionId(which) ==
    /\ which \notin DOMAIN results
    /\ results' = Put(results, which,
                      IF which = "request"
                      THEN ClientTransactionIdOfRequest(arguments[which])
                      ELSE ClientTransactionIdOfResponse(arguments[which]))
    /\ UNCHANGED <<factories_, channels_, client_transactions_,
                   server_transactions_, events, op, transaction_state,
                   posted_, destroyed, ssl_cert_error_handler_factory_,
                   ssl_cert_error_transactions_, arguments, sip_message, now>>

ClientIdNext ==
    \E which \in {"request", "response"} : ApplyClientTransactionId(which)

ClientIdSpec == ClientIdInit /\ [][ClientIdNext]_vars

\* The response answers the request: same branch of the top Via, and the
\* method of CSeq is the method of the request.
ResponseToRequest ==
    /\ arguments.kind = "request and response"
    /\ arguments.response.via.branch = arguments.request.via.branch
    /\ arguments.response.cseq_method = arguments.request.method

\* C18: for a request R with a Via and a response to R (same branch of the
\* top Via, CSeq method equal to the method of R),
\* ClientTransactionId(R) = ClientTransactionId(response): the response
\* finds the client transaction made for R.
C18_SameClientTransaction ==
    (ResponseToRequest /\ DOMAIN results = {"request", "response"}) =>
        results["request"] = results["response"]

\* C18, witness: both identifiers are computed for an INVITE and a response
\* to it that carries a To tag.
C18_Witness ==
    /\ ResponseToRequest
    /\ DOMAIN results = {"request", "response"}
    /\ arguments.request.method = "INVITE"
    /\ arguments.request.via.branch = Branch1
    /\ arguments.response.to_tag = "tt"
    /\ results["response"] = <<"c", Branch1, "INVITE">>

---------------------------------------------------------------------------
(* The next hop of a response: StampServerTopmostVia on the request that    *)
(* arrived, GetMessageEndPoint on the response that is sent.                *)

\* The end points of the peers over UDP.
PeerEndPoints ==
    {[host |-> h, port |-> p, protocol |-> "UDP"] : h \in Hosts, p \in Ports}

\* A request as it arrived, with the sent-by its sender wrote, and the peer
\* the channel saw it come from.
ArrivedRequests ==
    [kind : {"arrived request"},
     request : {Request("Incoming", "INVITE", EmptyEndPoint, EmptyEndPoint,
                        via) :
                  via \in {NoVia} \cup
                          {ViaParam("UDP", [host |-> h, port |-> p], b) :
                             h \in Hosts, p \in Ports,
                             b \in {Branch1, OldBranch}}},
     peer : PeerEndPoints]

NextHopInit ==
    /\ factories_ = {}
    /\ channels_ = EmptyMap
    /\ client_transactions_ = EmptyMap
    /\ server_transactions_ = EmptyMap
    /\ events = <<>>
    /\ op = Idle
    /\ transaction_state = EmptyMap
    /\ posted_ = <<>>
    /\ destroyed = FALSE
    /\ now = 0
    /\ ssl_cert_error_handler_factory_ = FALSE
    /\ ssl_cert_error_transactions_ = <<>>
    /\ arguments \in ArrivedRequests
    /\ results = EmptyMap
    /\ sip_message = NoMessage

NextHopUnchanged ==
    UNCHANGED <<factories_, channels_, client_transactions_,
                server_transactions_, events, op, transaction_state,
                posted_, destroyed, ssl_cert_error_handler_factory_,
                ssl_cert_error_transactions_, arguments, sip_message, now>>

\* OnIncomingMessage stamps the request that arrived.
ApplyStampServerTopmostVia ==
    /\ "stamped" \notin DOMAIN results
    /\ results' = Put(results, "stamped",
                      StampServerTopmostVia(arguments.request, arguments.peer))
    /\ NextHopUnchanged

\* The upper layer hands Send a response with the topmost Via of the
\* request: as the network layer gave it the request (stamped), or as the
\* request was written by its sender.
ResponseWithVia(from) ==
    /\ "response" \notin DOMAIN results
    /\ from = "stamped" => "stamped" \in DOMAIN results
    /\ LET via == IF from = "stamped" THEN results["stamped"].via
                  ELSE arguments.request.via
       IN  results' = Put(Put(results, "response",
                              Response("Outgoing", "INVITE", via, "tt")),
                          "from", from)
    /\ NextHopUnchanged

\* SendResponse computes the next hop of the response.
ApplyGetMessageEndPoint ==
    /\ "response" \in DOMAIN results
    /\ "next hop" \notin DOMAIN results
    /\ results' = Put(results, "next hop",
                      GetMessageEndPoint(results["response"]))
    /\ NextHopUnchanged

NextHopNext ==
    \/ ApplyStampServerTopmostVia
    \/ \E from \in {"stamped", "sender"} : ResponseWithVia(from)
    \/ ApplyGetMessageEndPoint

NextHopSpec == NextHopInit /\ [][NextHopNext]_vars

\* The next hop was computed for a response whose peer differs from the
\* sent-by of the Via in host and in port.
HopOfDistantPeer ==
    /\ arguments.kind = "arrived request"
    /\ "next hop" \in DOMAIN results
    /\ arguments.request.via.present
    /\ arguments.request.via.sent_by.host # arguments.peer.host
    /\ arguments.request.via.sent_by.port # arguments.peer.port

HopIsPeer ==
    /\ results["next hop"].host = arguments.peer.host
    /\ results["next hop"].port = arguments.peer.port

---------------------------------------------------------------------------
(* Message (sippet/message/message.cc).  A line is a sequence of words,     *)
(* the words being what single spaces separate.  The raw-headers buffer is  *)
(* the start line, the header lines and the null bytes that end them.       *)

\* SipVersion(): no version.  SipVersion(2, 0): the one accepted.
NoVersion == <<0, 0>>
Version20 == <<2, 0>>

\* The words that begin, case-insensitively, with "sip/".
SipSlashWords == {"SIP/2.0", "sip/2.0", "SIP/3.0", "SIP/2", "SIP/20.0"}

\* The characters of a word.  Of the words that are not listed none has a
\* slash, a dot or a digit that ParseVersion could read: "x" stands for
\* their letters.
Chars(word) ==
    CASE word = "SIP/2.0" -> <<"S", "I", "P", "/", "2", ".", "0">>
      [] word = "sip/2.0" -> <<"s", "i", "p", "/", "2", ".", "0">>
      [] word = "SIP/3.0" -> <<"S", "I", "P", "/", "3", ".", "0">>
      [] word = "SIP/2" -> <<"S", "I", "P", "/", "2">>
      [] word = "SIP/20.0" -> <<"S", "I", "P", "/", "2", "0", ".", "0">>
      [] word = "SIP/2.01" -> <<"S", "I", "P", "/", "2", ".", "0", "1">>
      [] word = "SIP/2." -> <<"S", "I", "P", "/", "2", ".">>
      [] word = "SIP-2.0" -> <<"S", "I", "P", "-", "2", ".", "0">>
      [] word = "v1.0" -> <<"v", "1", ".", "0">>
      [] word = "200" -> <<"2", "0", "0">>
      [] word = "486" -> <<"4", "8", "6">>
      [] word = "99" -> <<"9", "9">>
      [] word = "700" -> <<"7", "0", "0">>
      [] word = "" -> <<>>
      [] OTHER -> <<"x">>

\* The characters of a line: those of its words, a space between two words.
RECURSIVE CharsOf(_)
CharsOf(line) ==
    IF line = <<>> THEN <<>>
    ELSE IF Len(line) = 1 THEN Chars(line[1])
    ELSE Chars(line[1]) \o <<" ">> \o CharsOf(Tail(line))

\* base::IsAsciiDigit and the value of a digit.
Digits == {"0", "1", "2", "3", "4", "5", "6", "7", "8", "9"}

DigitValue(c) ==
    CASE c = "0" -> 0 [] c = "1" -> 1 [] c = "2" -> 2 [] c = "3" -> 3
      [] c = "4" -> 4 [] c = "5" -> 5 [] c = "6" -> 6 [] c = "7" -> 7
      [] c = "8" -> 8 [] c = "9" -> 9 [] OTHER -> 0

\* The lowercase of the letters of "SIP".
LowerChar(c) ==
    CASE c = "S" -> "s" [] c = "I" -> "i" [] c = "P" -> "p" [] OTHER -> c

\* The character at position `i` of `chars`; past the end it is the
\* sentinel that ParseVersion assumes, a null byte.
CharAt(chars, i) == IF i \in 1..Len(chars) THEN chars[i] ELSE "nul"

\* Message::ParseVersion on the characters from line_begin to line_end:
\* "sip" in either case, a slash, then the first dot wherever it is; the
\* character after the slash and the character after that dot must be
\* digits, and they are the version.  What lies between them is not read.
ParseVersionChars(chars) ==
    LET dots == {i \in 4..Len(chars) : chars[i] = "."}
        dot == CHOOSE i \in dots : \A j \in dots : i <= j
    IN  IF Len(chars) < 3
           \/ <<LowerChar(chars[1]), LowerChar(chars[2]),
                LowerChar(chars[3])>> # <<"s", "i", "p">>
        THEN NoVersion
        ELSE IF CharAt(chars, 4) # "/" THEN NoVersion
        ELSE IF dots = {} THEN NoVersion
        ELSE IF ~(CharAt(chars, 5) \in Digits
                  /\ CharAt(chars, dot + 1) \in Digits)
        THEN NoVersion
        ELSE <<DigitValue(chars[5]), DigitValue(chars[dot + 1])>>

\* Message::ParseVersion on the words from line_begin to line_end.
ParseVersion(line) == ParseVersionChars(CharsOf(line))

\* The words of a line after its first, as skipping the spaces between
\* them leaves them: an empty word is a second space.
SkipWhitespace(line) ==
    IF line = <<>> THEN <<>>
    ELSE <<Head(line)>> \o SelectSeq(Tail(line), LAMBDA w : w # "")

\* base::ToUpperASCII on the methods here.
ToUpperASCII(word) ==
    CASE word = "invite" -> "INVITE"
      [] word = "options" -> "OPTIONS"
      [] OTHER -> word

\* GURL(word).spec(): the canonical text of the URI, empty for no URI.
GurlSpec(word) ==
    CASE word = "SIP:a@b" -> "sip:a@b"
      [] word = "sip:a@b" -> "sip:a@b"
      [] OTHER -> ""

\* The leading digits of a word and base::StringToInt of them.
LeadingDigits(word) ==
    CASE word \in {"200", "99", "700", "486"} -> word
      [] OTHER -> ""

StringToInt(digits) ==
    CASE digits = "200" -> 200
      [] digits = "486" -> 486
      [] digits = "99" -> 99
      [] digits = "700" -> 700
      [] OTHER -> 0

\* std::string(): the cleared buffer.  `start` is the start line, start_nul
\* whether a null byte ends it, `lines` the header lines and end_nul whether
\* the second null byte closes the buffer.
EmptyBuffer ==
    [start |-> <<>>, start_nul |-> FALSE, lines |-> <<>>, end_nul |-> FALSE]

\* Message::Message(): response_code_ is -1, nothing is parsed.
NewMessage ==
    [kind |-> "message", raw_headers_ |-> EmptyBuffer, parsed_ |-> <<>>,
     request_method_ |-> "", request_uri_ |-> "", sip_version_ |-> NoVersion,
     response_code_ |-> -1]

\* What a parsing step hands back: the message as it leaves it, and
\* whether it succeeded.
Parsed(m, ok) == [m |-> m, ok |-> ok]

\* Message::ParseRequestLine
ParseRequestLine(m, raw_line) ==
    IF Len(raw_line) < 2 THEN Parsed(m, FALSE)
    ELSE LET line == SkipWhitespace(raw_line)
             m1 == [m EXCEPT !.request_method_ = ToUpperASCII(line[1]),
                             !.raw_headers_ =
                                 [EmptyBuffer EXCEPT
                                     !.start = <<ToUpperASCII(line[1])>>]]
         IN  IF Len(line) < 3 THEN Parsed(m1, FALSE)
             ELSE LET m2 == [m1 EXCEPT
                                !.request_uri_ = GurlSpec(line[2]),
                                !.raw_headers_.start =
                                    Append(@, GurlSpec(line[2]))]
                  IN  IF ParseVersion(SubSeq(line, 3, Len(line))) = Version20
                      THEN Parsed([m2 EXCEPT
                                      !.sip_version_ = Version20,
                                      !.raw_headers_.start =
                                          Append(@, "SIP/2.0")], TRUE)
                      ELSE Parsed(m2, FALSE)

\* Message::ParseStatusLine
ParseStatusLine(m, line) ==
    IF ParseVersion(line) # Version20 THEN Parsed(m, FALSE)
    ELSE LET m1 == [m EXCEPT !.sip_version_ = Version20,
                             !.raw_headers_ =
                                 [EmptyBuffer EXCEPT !.start = <<"SIP/2.0">>]]
         IN  IF Len(line) < 2 \/ LeadingDigits(line[2]) = ""
             THEN Parsed(m1, FALSE)
             ELSE LET code == StringToInt(LeadingDigits(line[2]))
                      m2 == [m1 EXCEPT
                                !.response_code_ = code,
                                !.raw_headers_.start =
                                    Append(@, LeadingDigits(line[2]))]
                  IN  IF code < 100 \/ code > 699 THEN Parsed(m2, FALSE)
                      ELSE Parsed([m2 EXCEPT
                                      !.raw_headers_.start =
                                          @ \o SubSeq(line, 3, Len(line))],
                                  TRUE)

\* Message::ParseStartLine: a line of more than four characters that
\* begins with "sip/" in either case is a status line, any other a request
\* line.
ParseStartLine(m, line) ==
    IF Len(CharsOf(line)) > 4
       /\ [i \in 1..4 |-> LowerChar(CharsOf(line)[i])]
              = <<"s", "i", "p", "/">>
    THEN ParseStatusLine(m, line)
    ELSE ParseRequestLine(m, line)

\* A header value is a sequence of tokens, the pieces that the delimiters
\* space, semicolon and comma separate.  A token is a quoted string, an
\* address in angle brackets, a bare URI, a bare word, a parameter (what
\* follows a semicolon), a comma, or text of a header that is not tokenized.
\* `text` is the words of the token; `closed` is whether a quoted string
\* has its closing quote.
Token(kind, text) == [kind |-> kind, text |-> text, closed |-> TRUE]

Comma == Token("comma", <<>>)

\* A space that the buffer holds where no token precedes it.  The space
\* between two tokens of a value is not written down.
Space == Token("space", <<>>)

\* A value without the spaces it begins with, as SipUtil::HeadersIterator
\* and SipUtil::ValuesIterator hand it out.
RECURSIVE TrimLWS(_)
TrimLWS(value) ==
    IF value # <<>> /\ Head(value).kind = "space" THEN TrimLWS(Tail(value))
    ELSE value

\* A header line: a name and a value.  `nul` is whether a null byte ends
\* the line in the buffer.
HeaderLine(name, value) == [name |-> name, value |-> value, nul |-> TRUE]

\* SipUtil::ExpandHeader: the long name of a compact form.
ExpandHeader(name) ==
    CASE name = "m" -> "Contact"
      [] name = "v" -> "Via"
      [] name = "t" -> "To"
      [] name = "k" -> "Supported"
      [] OTHER -> name

\* base::ToLowerASCII on header names.
ToLowerASCII(name) ==
    CASE name \in {"Via", "via", "VIA"} -> "via"
      [] name \in {"Contact", "contact"} -> "contact"
      [] name \in {"To", "to"} -> "to"
      [] name \in {"From", "from"} -> "from"
      [] name \in {"Supported", "supported"} -> "supported"
      [] name \in {"WWW-Authenticate", "www-authenticate"} -> "www-authenticate"
      [] OTHER -> name

\* SipUtil::IsContactLikeHeader, and the name Contact that NormalizeHeaders
\* tests by itself.
IsContactLikeHeader(name) ==
    ToLowerASCII(name) \in {"from", "to", "route", "record-route", "reply-to"}

\* SipUtil::IsNonCoalescingHeader
IsNonCoalescingHeader(name) ==
    ToLowerASCII(name) \in {"www-authenticate", "proxy-authenticate"}

\* The state of NormalizeContactLikeHeader at the start and after a comma.
ContactStart ==
    [next_is_param |-> FALSE, had_quoted_string |-> FALSE,
     had_address |-> FALSE, had_token |-> FALSE]

\* The words of tokens, as one text.
RECURSIVE Flatten(_)
Flatten(tokens) ==
    IF tokens = <<>> THEN <<>>
    ELSE Head(tokens).text \o Flatten(Tail(tokens))

\* base::StringTokenizer with the quote character '"': a quoted string
\* that is not closed takes everything up to the end of the value.
RECURSIVE Tokenize(_)
Tokenize(value) ==
    IF value = <<>> THEN <<>>
    ELSE IF Head(value).kind = "quoted" /\ ~Head(value).closed
    THEN <<[Head(value) EXCEPT !.text = Flatten(value)]>>
    ELSE <<Head(value)>> \o Tokenize(Tail(value))

\* Whether what was appended ends with a quoted string: the space that the
\* address is given after one is then the space between two tokens.
EndsWithQuoted(out) == out # <<>> /\ out[Len(out)].kind = "quoted"

\* The loop of Message::NormalizeContactLikeHeader from state `st` on, where
\* `out` is what it has appended for this value.  The result is what it
\* appended in all and whether it returned true.
RECURSIVE NormalizeContactTokens(_, _, _)
NormalizeContactTokens(tokens, st, out) ==
    IF tokens = <<>> THEN [out |-> out, ok |-> TRUE]
    ELSE LET token == Head(tokens)
             rest == Tail(tokens)
         IN  CASE token.kind = "comma" ->
                    NormalizeContactTokens(rest, ContactStart,
                                           Append(out, Comma))
               [] token.kind = "space" ->
                    NormalizeContactTokens(rest, st, out)
               [] token.kind = "param" \/ st.next_is_param ->
                    NormalizeContactTokens(rest,
                        [st EXCEPT !.next_is_param = TRUE],
                        Append(out, [token EXCEPT !.kind = "param"]))
               [] token.kind = "quoted" ->
                    IF st.had_quoted_string THEN [out |-> out, ok |-> FALSE]
                    ELSE NormalizeContactTokens(rest,
                             [st EXCEPT !.had_quoted_string = TRUE],
                             IF token.text = <<>> /\ token.closed THEN out
                             ELSE Append(out, token))
               [] token.kind = "address" ->
                    IF st.had_address THEN [out |-> out, ok |-> FALSE]
                    ELSE NormalizeContactTokens(rest,
                             [st EXCEPT !.had_address = TRUE],
                             Append(IF st.had_token
                                    THEN [out EXCEPT ![Len(out)].closed = TRUE]
                                    ELSE IF st.had_quoted_string
                                            /\ ~EndsWithQuoted(out)
                                    THEN Append(out, Space)
                                    ELSE out,
                                    token))
               [] token.kind = "uri" ->
                    IF st.had_quoted_string \/ st.had_address
                    THEN [out |-> out, ok |-> FALSE]
                    ELSE NormalizeContactTokens(rest,
                             [st EXCEPT !.had_address = TRUE],
                             Append(out, [token EXCEPT !.kind = "address"]))
               [] OTHER ->
                    IF st.had_quoted_string \/ st.had_address
                    THEN [out |-> out, ok |-> FALSE]
                    ELSE NormalizeContactTokens(rest,
                             [st EXCEPT !.had_token = TRUE],
                             IF st.had_token
                             THEN [out EXCEPT ![Len(out)].text =
                                                  @ \o token.text]
                             ELSE Append(out, [kind |-> "quoted",
                                               text |-> token.text,
                                               closed |-> FALSE]))

\* Message::NormalizeContactLikeHeader
NormalizeContactLikeHeader(value) ==
    NormalizeContactTokens(Tokenize(value), ContactStart, <<>>)

\* The value "*" of Contact.
Star == <<Token("word", <<"*">>)>>

\* Message::NormalizeHeaders: every line of the input is appended to the
\* buffer with its long name and its normalized value, and the second null
\* byte closes the buffer.  A value that NormalizeContactLikeHeader rejects
\* ends the loop: what was appended so far stays in the buffer.
RECURSIVE NormalizeHeaders(_, _)
NormalizeHeaders(m, lines) ==
    IF lines = <<>> THEN Parsed([m EXCEPT !.raw_headers_.end_nul = TRUE], TRUE)
    ELSE LET name == ExpandHeader(Head(lines).name)
             value == Head(lines).value
             normalized ==
                 IF IsContactLikeHeader(name)
                    \/ (ToLowerASCII(name) = "contact" /\ value # Star)
                 THEN NormalizeContactLikeHeader(value)
                 ELSE [out |-> value, ok |-> TRUE]
             m1 == [m EXCEPT !.raw_headers_.lines =
                       Append(@, [name |-> name, value |-> normalized.out,
                                  nul |-> normalized.ok])]
         IN  IF normalized.ok THEN NormalizeHeaders(m1, Tail(lines))
             ELSE Parsed(m1, FALSE)

\* An entry of parsed_: a continuation has the empty name.
ParsedHeader(name, value) == [name |-> name, value |-> value]

is_continuation(header) == header.name = ""

\* SipUtil::ValuesIterator: the values that the commas of `value` separate,
\* as entries of parsed_; the first has the name, the others are
\* continuations.
RECURSIVE SplitValues(_, _, _)
SplitValues(name, value, current) ==
    IF value = <<>> THEN <<ParsedHeader(name, current)>>
    ELSE IF Head(value).kind = "comma"
    THEN <<ParsedHeader(name, current)>>
         \o SplitValues("", TrimLWS(Tail(value)), <<>>)
    ELSE SplitValues(name, Tail(value), Append(current, Head(value)))

\* AddHeader with the name clobbered before the first AddToParsed, not
\* after it: the first value of a header is a continuation too.
\* C24_ParsedIndex tells the two apart.
AddHeaderToParsedClobbered(parsed, name, untrimmed) ==
    parsed \o SplitValues("", TrimLWS(untrimmed), <<>>)

\* Message::AddHeader(name_begin, name_end, values_begin, values_end) with
\* AddToParsed.
AddHeaderToParsed(parsed, name, untrimmed) ==
    LET value == TrimLWS(untrimmed)
    IN  IF value = <<>> \/ IsNonCoalescingHeader(name)
        THEN Append(parsed, ParsedHeader(name, value))
        ELSE parsed \o SplitValues(name, value, <<>>)

\* The second loop of ParseInternal: the lines of the buffer are indexed.
RECURSIVE IndexLines(_, _)
IndexLines(parsed, lines) ==
    IF lines = <<>> THEN parsed
    ELSE IndexLines(AddHeaderToParsed(parsed, Head(lines).name,
                                      Head(lines).value),
                    Tail(lines))

\* Message::ParseInternal.  `raw_input` has the form of a buffer.  Nothing
\* is undone where a step fails.
ParseInternal(m, raw_input) ==
    LET started == ParseStartLine(m, raw_input.start)
        m1 == [started.m EXCEPT !.raw_headers_.start_nul = TRUE]
        normalized == NormalizeHeaders(m1, raw_input.lines)
    IN  IF ~started.ok THEN Parsed(started.m, FALSE)
        ELSE IF ~raw_input.start_nul
        THEN Parsed([m1 EXCEPT !.raw_headers_.end_nul = TRUE], TRUE)
        ELSE IF ~normalized.ok THEN Parsed(normalized.m, FALSE)
        ELSE Parsed([normalized.m EXCEPT
                        !.parsed_ = IndexLines(@,
                                        normalized.m.raw_headers_.lines)],
                    TRUE)

\* Message::GetStartLine: the buffer up to its first null byte.
GetStartLine(m) == m.raw_headers_.start

\* The text from the name of entry `i` of parsed_ to the end of the value
\* of entry `k`: the values with the commas between them.
RECURSIVE ValueSpan(_, _, _)
ValueSpan(parsed, i, k) ==
    IF i = k THEN parsed[i].value
    ELSE parsed[i].value \o <<Comma>> \o ValueSpan(parsed, i + 1, k)

\* The last continuation of the header that entry `i` begins.
RECURSIVE LastContinuation(_, _)
LastContinuation(parsed, i) ==
    IF i + 1 <= Len(parsed) /\ is_continuation(parsed[i + 1])
    THEN LastContinuation(parsed, i + 1)
    ELSE i

\* Message::EnumerateHeaderLines from the start: every header of parsed_
\* as a name and its whole value.
RECURSIVE EnumerateHeaderLines(_, _)
EnumerateHeaderLines(parsed, i) ==
    IF i > Len(parsed) THEN <<>>
    ELSE LET k == LastContinuation(parsed, i)
         IN  <<HeaderLine(parsed[i].name, ValueSpan(parsed, i, k))>>
             \o EnumerateHeaderLines(parsed, k + 1)

\* "Make this object hold the new data": raw_headers_.clear(),
\* parsed_.clear(), ParseInternal(new_raw_headers).  The typed fields are not
\* cleared, and the result of ParseInternal is not looked at.
HoldNewData(m, new_raw_headers) ==
    ParseInternal([m EXCEPT !.raw_headers_ = EmptyBuffer, !.parsed_ = <<>>],
                  new_raw_headers)

\* The loop of MergeWithMessage: the headers of parsed_ from entry `i` on
\* whose lowercase name is not in headers_to_remove, as lines.
RECURSIVE PreservedLines(_, _, _)
PreservedLines(parsed, i, headers_to_remove) ==
    IF i > Len(parsed) THEN <<>>
    ELSE LET k == LastContinuation(parsed, i)
         IN  (IF ToLowerASCII(parsed[i].name) \notin headers_to_remove
              THEN <<HeaderLine(parsed[i].name, ValueSpan(parsed, i, k))>>
              ELSE <<>>)
             \o PreservedLines(parsed, k + 1, headers_to_remove)

\* A buffer of the start line `start`, its null byte and `lines`, closed.
BufferOf(start, lines) ==
    [start |-> start, start_nul |-> TRUE, lines |-> lines, end_nul |-> TRUE]

\* Message::MergeWithMessage, where raw_headers is a start line with its
\* null byte.
MergeWithMessage(m, start, headers_to_remove) ==
    HoldNewData(m, BufferOf(start,
                            PreservedLines(m.parsed_, 1, headers_to_remove)))

\* Message::RemoveHeaders
RemoveHeaders(m, header_names) ==
    MergeWithMessage(m, GetStartLine(m),
                     {ToLowerASCII(name) : name \in header_names})

\* Message::RemoveHeader
RemoveHeader(m, name) ==
    MergeWithMessage(m, GetStartLine(m), {ToLowerASCII(name)})

\* The lines of `lines` except those of `name` with exactly `value`.
RECURSIVE WithoutLine(_, _, _)
WithoutLine(lines, name, value) ==
    IF lines = <<>> THEN <<>>
    ELSE (IF ToLowerASCII(Head(lines).name) = ToLowerASCII(name)
             /\ Head(lines).value = value
          THEN <<>> ELSE <<Head(lines)>>)
         \o WithoutLine(Tail(lines), name, value)

\* Message::RemoveHeaderLine
RemoveHeaderLine(m, name, value) ==
    HoldNewData(m, BufferOf(GetStartLine(m),
                            WithoutLine(EnumerateHeaderLines(m.parsed_, 1),
                                        name, value)))

\* Message::AddHeader(header): the buffer without its last null byte, the
\* header, two null bytes.
AddHeader(m, header) ==
    HoldNewData(m, [m.raw_headers_ EXCEPT !.lines = Append(@, header),
                                          !.end_nul = TRUE])

\* Message::ReplaceStartLine
ReplaceStartLine(m, new_start) == MergeWithMessage(m, new_start, {})

\* The first line named Via, with ";received=" and the address appended
\* to its value; the other lines as they are.
RECURSIVE WithReceived(_, _, _)
WithReceived(lines, received, is_first) ==
    IF lines = <<>> THEN <<>>
    ELSE IF ToLowerASCII(Head(lines).name) = "via" /\ is_first
    THEN <<[Head(lines) EXCEPT !.value =
               Append(@, Token("text", <<";received=", received>>))]>>
         \o WithReceived(Tail(lines), received, FALSE)
    ELSE <<Head(lines)>> \o WithReceived(Tail(lines), received, is_first)

\* Message::SetViaReceived
SetViaReceived(m, received) ==
    HoldNewData(m, BufferOf(GetStartLine(m),
                            WithReceived(EnumerateHeaderLines(m.parsed_, 1),
                                         received, TRUE)))

---------------------------------------------------------------------------
(* A message and its mutations.                                             *)

\* The header lines a message may hold, and the tokens of one line.
MaxHeaderLines == 2
MaxValueTokens == 4

Text(word) == Token("text", <<word>>)

\* Header lines as they are written: with a long or a compact name; with
\* one value, with values that commas separate, with a display name, with
\* no value; and
\* two that NormalizeContactLikeHeader rejects (a repeated display name, a
\* repeated address).
WellFormedHeaders ==
    {HeaderLine("Via", <<Text("SIP/2.0/UDP a")>>),
     HeaderLine("v", <<Text("SIP/2.0/UDP b"), Comma, Text("SIP/2.0/UDP c")>>),
     HeaderLine("m", <<Token("uri", <<"sip:u@h">>)>>),
     HeaderLine("To", <<Token("word", <<"A">>),
                        Token("address", <<"<sip:u@h>">>)>>),
     HeaderLine("WWW-Authenticate", <<Text("x"), Comma, Text("y")>>),
     HeaderLine("k", <<>>)}

MalformedHeaders ==
    {HeaderLine("Contact", <<Token("quoted", <<"A">>), Token("quoted", <<"B">>),
                             Token("address", <<"<sip:u@h>">>)>>),
     HeaderLine("To", <<Token("address", <<"<sip:u@h>">>),
                        Token("address", <<"<sip:w@h>">>)>>)}

\* Start lines as they are written: that parse, and that do not (no
\* method, no version, another version, a code that is no number or out of
\* range).
WellFormedStartLines ==
    {<<"invite", "SIP:a@b", "sip/2.0">>,
     <<"SIP/2.0", "486", "Busy", "Here">>}

MalformedStartLines ==
    {<<"garbage">>,
     <<"INVITE", "sip:a@b">>,
     <<"INVITE", "sip:a@b", "SIP/3.0">>,
     <<"SIP/3.0", "200", "OK">>,
     <<"SIP/2.0", "99", "Low">>,
     <<"SIP/2.0", "OK">>}

\* The inputs of Message::Parse.
RawInputs ==
    {BufferOf(start, lines) :
        start \in {<<"INVITE", "sip:a@b", "SIP/2.0">>,
                   <<"SIP/2.0", "200", "OK">>},
        lines \in {<<>>} \cup {<<h>> : h \in WellFormedHeaders}}

\* The names given to RemoveHeader, RemoveHeaders and RemoveHeaderLine.
HeaderNames ==
    {"via", "v", "Contact", "m", "To", "www-authenticate", "WWW-Authenticate"}

\* Message::Parse returned the message: ParseInternal succeeded on a new
\* Message.  No mutation has run yet.
MessageInit ==
    /\ factories_ = {}
    /\ channels_ = EmptyMap
    /\ client_transactions_ = EmptyMap
    /\ server_transactions_ = EmptyMap
    /\ events = <<>>
    /\ op = Idle
    /\ transaction_state = EmptyMap
    /\ posted_ = <<>>
    /\ destroyed = FALSE
    /\ now = 0
    /\ ssl_cert_error_handler_factory_ = FALSE
    /\ ssl_cert_error_transactions_ = <<>>
    /\ arguments = NoArguments
    /\ results = [operation |-> "Parse", ok |-> TRUE]
    /\ \E raw_input \in RawInputs :
          /\ ParseInternal(NewMessage, raw_input).ok
          /\ sip_message = ParseInternal(NewMessage, raw_input).m

\* The buffer ends with its two null bytes, which AddHeader and
\* SetViaReceived require (DCHECK_EQ).
Terminated2(m) ==
    /\ m.raw_headers_.start_nul
    /\ m.raw_headers_.end_nul
    /\ \A i \in DOMAIN m.raw_headers_.lines : m.raw_headers_.lines[i].nul

\* The mutation `operation` ran with `argument` and left the message as
\* `r.m`; `r.ok` is what its ParseInternal returned, which the mutation
\* drops.
Mutated(operation, argument, r) ==
    /\ Terminated2(sip_message)
    /\ Len(r.m.raw_headers_.lines) <= MaxHeaderLines
    /\ \A i \in DOMAIN r.m.raw_headers_.lines :
          Len(r.m.raw_headers_.lines[i].value) <= MaxValueTokens
    /\ sip_message' = r.m
    /\ results' = [operation |-> operation, ok |-> r.ok]
    /\ arguments' = [kind |-> operation, argument |-> argument]
    /\ UNCHANGED <<factories_, channels_, client_transactions_,
                   server_transactions_, events, op, transaction_state,
                   posted_, destroyed, ssl_cert_error_handler_factory_,
                   ssl_cert_error_transactions_, now>>

\* AddHeader(header); `before` is the message as AddHeader found it.
MessageAddHeader ==
    \E header \in WellFormedHeaders \cup MalformedHeaders :
        Mutated("AddHeader", [header |-> header, before |-> sip_message],
                AddHeader(sip_message, header))

MessageRemoveHeader ==
    \E name \in HeaderNames :
        Mutated("RemoveHeader", name, RemoveHeader(sip_message, name))

MessageRemoveHeaders ==
    \E header_names \in SUBSET {"via", "Contact", "To"} :
        Mutated("RemoveHeaders", header_names,
                RemoveHeaders(sip_message, header_names))

MessageRemoveHeaderLine ==
    \E line \in {l \in WellFormedHeaders : l.name \in {"Via", "To"}} :
        Mutated("RemoveHeaderLine", line,
                RemoveHeaderLine(sip_message, line.name,
                    NormalizeHeaders(NewMessage, <<line>>)
                        .m.raw_headers_.lines[1].value))

MessageReplaceStartLine ==
    \E new_start \in WellFormedStartLines \cup MalformedStartLines :
        Mutated("ReplaceStartLine", new_start,
                ReplaceStartLine(sip_message, new_start))

MessageSetViaReceived ==
    \E received \in {"10.0.0.2"} :
        Mutated("SetViaReceived", received,
                SetViaReceived(sip_message, received))

MessageNext ==
    \/ MessageAddHeader
    \/ MessageRemoveHeader
    \/ MessageRemoveHeaders
    \/ MessageRemoveHeaderLine
    \/ MessageReplaceStartLine
    \/ MessageSetViaReceived

MessageSpec == MessageInit /\ [][MessageNext]_vars

\* C20: every mutation (AddHeader, RemoveHeader, RemoveHeaders,
\* RemoveHeaderLine, ReplaceStartLine, SetViaReceived) is atomic with
\* respect to a failure of the re-parse: if parsing the new buffer fails,
\* the raw headers, the parsed index, the start line and the typed fields
\* of the message are what they were before the mutation.
C20_FailedReparseChangesNothing ==
    [][~results'.ok => sip_message' = sip_message]_vars

\* What the mutations do instead: a failed re-parse leaves the message
\* without its parsed index and with a buffer that does not end in two
\* null bytes; a re-parse that succeeds leaves a closed buffer.
FailedReparseLosesHeaders ==
    IF results.ok THEN Terminated2(sip_message)
    ELSE /\ sip_message.parsed_ = <<>>
         /\ ~Terminated2(sip_message)

\* The re-parse failed in AddHeader on a message that had a header, and in
\* ReplaceStartLine.
AddHeaderFailed ==
    /\ results.operation = "AddHeader"
    /\ ~results.ok
    /\ Len(sip_message.raw_headers_.lines) = 2

ReplaceStartLineFailed ==
    /\ results.operation = "ReplaceStartLine"
    /\ ~results.ok
    /\ sip_message.response_code_ = 99


---------------------------------------------------------------------------
(* Message::Parse of an input, and of the buffer it made.                   *)

\* Contact-like values as they are written: a display name alone, quoted
\* or not; an empty quoted display name before the address; a bare URI; an
\* address with a parameter; two addresses that a comma separates, the
\* second with an empty display name; and the star of Contact.
ContactLikeHeaders ==
    {HeaderLine("To", <<Token("quoted", <<"A">>)>>),
     HeaderLine("From", <<Token("word", <<"A">>), Token("word", <<"B">>)>>),
     HeaderLine("To", <<Token("quoted", <<>>),
                        Token("address", <<"<sip:u@h>">>)>>),
     HeaderLine("From", <<Token("address", <<"<sip:u@h>">>),
                          Token("param", <<";tag=1">>)>>),
     HeaderLine("m", <<Token("address", <<"<sip:u@h>">>), Comma,
                       Token("quoted", <<>>),
                       Token("address", <<"<sip:w@h>">>)>>),
     HeaderLine("Contact", Star)}

\* Start lines whose version is not written as 2.0 and that ParseVersion
\* may take for it, and a code above the range.
VersionStartLines ==
    {<<"SIP/20.0", "200", "OK">>,
     <<"SIP/2.01", "200", "OK">>,
     <<"SIP/2", "200", "v1.0">>,
     <<"SIP/2.", "200", "OK">>,
     <<"SIP-2.0", "200", "OK">>,
     <<"INVITE", "sip:a@b", "SIP/20.0">>,
     <<"SIP/2.0", "700", "High">>}

ParseHeaders == WellFormedHeaders \cup MalformedHeaders \cup ContactLikeHeaders

\* The inputs of Message::Parse: a start line and up to MaxHeaderLines
\* header lines.
ParseInputs ==
    {BufferOf(start, lines) :
        start \in WellFormedStartLines \cup MalformedStartLines
                      \cup VersionStartLines,
        lines \in UNION {[1..n -> ParseHeaders] : n \in 0..MaxHeaderLines}}

\* Message::Parse was called with an input and has made the new Message.
ParseInit ==
    /\ factories_ = {}
    /\ channels_ = EmptyMap
    /\ client_transactions_ = EmptyMap
    /\ server_transactions_ = EmptyMap
    /\ events = <<>>
    /\ op = Idle
    /\ transaction_state = EmptyMap
    /\ posted_ = <<>>
    /\ destroyed = FALSE
    /\ now = 0
    /\ ssl_cert_error_handler_factory_ = FALSE
    /\ ssl_cert_error_transactions_ = <<>>
    /\ \E raw_input \in ParseInputs :
          arguments = [kind |-> "Parse", raw_input |-> raw_input]
    /\ results = [operation |-> "new", ok |-> TRUE]
    /\ sip_message = NewMessage

\* ParseInternal(raw_input) ran on the message and returned r.ok.
ParsedInto(operation, raw_input, r) ==
    /\ sip_message' = r.m
    /\ results' = [operation |-> operation, ok |-> r.ok,
                   canonical |-> sip_message]
    /\ arguments' = [kind |-> "Parse", raw_input |-> raw_input]
    /\ UNCHANGED <<factories_, channels_, client_transactions_,
                   server_transactions_, events, op, transaction_state,
                   posted_, destroyed, ssl_cert_error_handler_factory_,
                   ssl_cert_error_transactions_, now>>

\* Message::Parse(raw_input)
MessageParse ==
    /\ results.operation = "new"
    /\ ParsedInto("Parse", arguments.raw_input,
                  ParseInternal(NewMessage, arguments.raw_input))

\* Message::Parse of the raw-headers buffer of a message that was parsed.
MessageParseCanonical ==
    /\ results.operation = "Parse"
    /\ results.ok
    /\ ParsedInto("Parse of the canonical form", sip_message.raw_headers_,
                  ParseInternal(NewMessage, sip_message.raw_headers_))

ParseNext ==
    \/ MessageParse
    \/ MessageParseCanonical

ParseSpec == ParseInit /\ [][ParseNext]_vars

\* C21: the canonical form is a fixed point of parsing: for every input
\* that parses, parsing the raw-headers buffer that the first parse made
\* succeeds and yields the same raw-headers buffer and the same parsed
\* header entries, contact-like headers included.
C21_CanonicalFixedPoint ==
    results.operation = "Parse of the canonical form" =>
        /\ results.ok
        /\ sip_message.raw_headers_ = results.canonical.raw_headers_
        /\ sip_message.parsed_ = results.canonical.parsed_

\* What does hold: the second parse succeeds and yields the same parsed
\* header entries; and the buffers are the same unless the first has the
\* space of an empty quoted display name.
HasSpace(buffer) ==
    \E i \in DOMAIN buffer.lines :
        \E j \in DOMAIN buffer.lines[i].value :
            buffer.lines[i].value[j] = Space

CanonicalButForSpace ==
    results.operation = "Parse of the canonical form" =>
        /\ results.ok
        /\ sip_message.parsed_ = results.canonical.parsed_
        /\ ~HasSpace(sip_message.raw_headers_)
        /\ ~HasSpace(results.canonical.raw_headers_) =>
               sip_message.raw_headers_ = results.canonical.raw_headers_

\* The fixed point is reached for a contact-like header with a display
\* name, and missed for one with an empty quoted display name.
FixedPointOfDisplayName ==
    /\ results.operation = "Parse of the canonical form"
    /\ sip_message.raw_headers_ = results.canonical.raw_headers_
    /\ \E i \in DOMAIN sip_message.raw_headers_.lines :
          /\ sip_message.raw_headers_.lines[i].name = "From"
          /\ Len(sip_message.raw_headers_.lines[i].value) = 1

EmptyDisplayNameReparsed ==
    /\ results.operation = "Parse of the canonical form"
    /\ HasSpace(results.canonical.raw_headers_)
    /\ ~HasSpace(sip_message.raw_headers_)


\* The version is written as the grammar has it: "sip" in either case, a
\* slash, the digit 2, a dot, the digit 0, and nothing else.
WrittenAs20(word) ==
    [i \in 1..Len(Chars(word)) |-> LowerChar(Chars(word)[i])]
        = <<"s", "i", "p", "/", "2", ".", "0">>

\* The word of a start line where its version stands.
VersionWord(line) ==
    IF Len(CharsOf(line)) > 4 /\ CharAt(CharsOf(line), 4) = "/"
    THEN line[1]
    ELSE IF Len(line) >= 3 THEN line[3] ELSE ""

\* C26: the start-line parser accepts a message only if its SIP-Version is
\* exactly 2.0 (literal sip, slash, one digit, dot, one digit) and, for a
\* status line, only if the response code is within 100..699; every other
\* version or code makes Parse fail, and every parsed response has the
\* version (2, 0) and a response code within 100..699.
C26_OnlyVersion20 ==
    results.operation = "Parse" /\ results.ok =>
        /\ WrittenAs20(VersionWord(arguments.raw_input.start))
        /\ sip_message.sip_version_ = Version20
        /\ sip_message.request_method_ = "" =>
               sip_message.response_code_ \in 100..699

\* What does hold: a parsed message has the version (2, 0), a parsed
\* response a code within 100..699, and a start line whose version is
\* written as 2.0 and whose code is in the range is accepted.
ParsedAs20 ==
    results.operation = "Parse" =>
        /\ results.ok =>
               /\ sip_message.sip_version_ = Version20
               /\ sip_message.request_method_ = "" =>
                      sip_message.response_code_ \in 100..699
        /\ arguments.raw_input.start \in WellFormedStartLines
               /\ (\A i \in DOMAIN arguments.raw_input.lines :
                      arguments.raw_input.lines[i] \notin MalformedHeaders)
               => results.ok

\* A version that is not written as 2.0 was accepted: 20.0, 2.01, and 2
\* with a dot in the reason phrase.
Version20Dot0Accepted ==
    /\ results.operation = "Parse"
    /\ results.ok
    /\ arguments.raw_input.start[1] = "SIP/20.0"

DotOfReasonAccepted ==
    /\ results.operation = "Parse"
    /\ results.ok
    /\ arguments.raw_input.start[1] = "SIP/2"

OtherVersionRejected ==
    /\ results.operation = "Parse"
    /\ ~results.ok
    /\ arguments.raw_input.start[1] = "SIP/3.0"


---------------------------------------------------------------------------
(* Claims about the mutations of a message.                                 *)

\* Two messages with the same start line and the same headers in the same
\* order, as GetStartLine and EnumerateHeaderLines show them.
SameMessage(a, b) ==
    /\ GetStartLine(a) = GetStartLine(b)
    /\ EnumerateHeaderLines(a.parsed_, 1) = EnumerateHeaderLines(b.parsed_, 1)

\* The message has a header of this name, in its long or its compact
\* form and in either case.
HasHeaderNamed(m, name) ==
    \E i \in DOMAIN m.parsed_ :
        /\ ~is_continuation(m.parsed_[i])
        /\ ToLowerASCII(m.parsed_[i].name) = ToLowerASCII(ExpandHeader(name))

\* AddHeader(H) succeeded on a message without a header of the name of H,
\* and RemoveHeader of that name is the next operation.
AddedThenRemoved ==
    /\ results.operation = "AddHeader"
    /\ results.ok
    /\ ~HasHeaderNamed(arguments.argument.before,
                       arguments.argument.header.name)
    /\ results'.operation = "RemoveHeader"
    /\ arguments'.argument = arguments.argument.header.name

\* C22: for every valid message M and header H such that M has no header
\* named H.name, AddHeader(H) and then RemoveHeader(H.name) yield a message
\* equal to M: the same start line, the same headers in the same order.
C22_RemoveUndoesAdd ==
    [][AddedThenRemoved
          => SameMessage(sip_message', arguments.argument.before)]_vars

\* What does hold: the law for the headers that are added under their
\* long name.
RemoveUndoesAddOfLongName ==
    [][AddedThenRemoved
          /\ ExpandHeader(arguments.argument.header.name)
                = arguments.argument.header.name
          => SameMessage(sip_message', arguments.argument.before)]_vars

\* A header was added under its compact name and removed under it, and it
\* is still there; a header was added and removed under its long name.
CompactNameNotRemoved ==
    /\ results.operation = "RemoveHeader"
    /\ arguments.argument = "m"
    /\ sip_message.parsed_ # <<>>
    /\ sip_message.parsed_[Len(sip_message.parsed_)].name = "Contact"

LongNameRemoved ==
    /\ results.operation = "RemoveHeader"
    /\ arguments.argument = "To"
    /\ results.ok
    /\ ~HasHeaderNamed(sip_message, "To")


\* The form of the raw-headers buffer: the start line, its null byte, the
\* header lines, each a name and a value that a null byte ends, and the
\* second null byte at the end.
BufferFormat(m) ==
    /\ Terminated2(m)
    /\ GetStartLine(m) # <<>>
    /\ \A i \in DOMAIN m.raw_headers_.lines :
          m.raw_headers_.lines[i].name # ""

\* C23: after a successful parse and after any sequence of mutations, the
\* raw-headers buffer ends with two consecutive null bytes, the start line
\* is the segment before the first null byte, and each following segment
\* holds exactly one header of the form name: value.
C23_BufferFormat == BufferFormat(sip_message)

\* What does hold: the buffer has the form after a parse and after every
\* mutation whose re-parse succeeded.
BufferFormatWhenReparsed == results.ok => BufferFormat(sip_message)

\* A mutation whose re-parse failed in the start line left a buffer with
\* no null byte at all.
NoNullByteLeft ==
    /\ ~results.ok
    /\ ~sip_message.raw_headers_.start_nul
    /\ ~sip_message.raw_headers_.end_nul


\* The header lines of the buffer as the index shows them: the values
\* without the spaces they begin with.
IndexedLines(m) ==
    [i \in DOMAIN m.raw_headers_.lines |->
        [m.raw_headers_.lines[i] EXCEPT !.value = TrimLWS(@)]]

\* C24: in the parsed index of every message a top-level entry has a name
\* and a continuation has none, a continuation is never the first entry,
\* and every continuation directly follows the top-level entry, or another
\* continuation, of the header it belongs to: the entries, read one header
\* after the other, give the header lines of the buffer in their order.
C24_ParsedIndex ==
    LET parsed == sip_message.parsed_
    IN  parsed # <<>> =>
            /\ ~is_continuation(parsed[1])
            /\ \A i \in DOMAIN parsed :
                  is_continuation(parsed[i]) =>
                      /\ i > 1
                      /\ parsed[i].value # <<>>
            /\ EnumerateHeaderLines(parsed, 1) = IndexedLines(sip_message)

\* C24, witness: the index has a header with a continuation and a header
\* after it, after a mutation.
C24_Witness ==
    /\ results.operation # "Parse"
    /\ Len(sip_message.parsed_) = 3
    /\ is_continuation(sip_message.parsed_[2])
    /\ ~is_continuation(sip_message.parsed_[3])


\* The entry of the topmost Via value: the first entry named Via.
TopmostVia(parsed) ==
    CHOOSE i \in DOMAIN parsed :
        /\ ToLowerASCII(parsed[i].name) = "via"
        /\ \A j \in 1..(i - 1) : ToLowerASCII(parsed[j].name) # "via"

HasVia(parsed) ==
    \E i \in DOMAIN parsed : ToLowerASCII(parsed[i].name) = "via"

\* The index `after` is the index `parsed` with ";received=" and the
\* address appended to the value of entry `i`, and nothing else changed.
ReceivedAppendedAt(parsed, after, i, received) ==
    /\ Len(after) = Len(parsed)
    /\ after[i] = [parsed[i] EXCEPT !.value =
                      Append(@, Token("text", <<";received=", received>>))]
    /\ \A j \in DOMAIN parsed : j # i => after[j] = parsed[j]

\* SetViaReceived ran on a message that has a Via.
ViaReceivedSet ==
    /\ results'.operation = "SetViaReceived"
    /\ HasVia(sip_message.parsed_)

\* C25: SetViaReceived changes only the topmost Via value, by appending
\* ;received=<addr> to that first Via value; every other Via value, on a
\* later Via line or after a comma on the first Via line, and every other
\* header is kept as it is and in the same order.
C25_TopmostViaOnly ==
    [][ViaReceivedSet =>
          /\ GetStartLine(sip_message') = GetStartLine(sip_message)
          /\ ReceivedAppendedAt(sip_message.parsed_, sip_message'.parsed_,
                                TopmostVia(sip_message.parsed_),
                                arguments'.argument)]_vars

\* What does hold: ;received=<addr> is appended to the end of the first
\* Via line, that is to the last of the values of that line.
ReceivedAtEndOfFirstViaLine ==
    [][ViaReceivedSet =>
          /\ GetStartLine(sip_message') = GetStartLine(sip_message)
          /\ ReceivedAppendedAt(sip_message.parsed_, sip_message'.parsed_,
                                LastContinuation(sip_message.parsed_,
                                    TopmostVia(sip_message.parsed_)),
                                arguments'.argument)]_vars

\* SetViaReceived ran on a message whose first Via line has two values,
\* and the topmost is as it was.
SecondViaValueStamped ==
    /\ results.operation = "SetViaReceived"
    /\ Len(sip_message.parsed_) >= 2
    /\ sip_message.parsed_[1] = ParsedHeader("Via", <<Text("SIP/2.0/UDP b")>>)
    /\ is_continuation(sip_message.parsed_[2])
    /\ Len(sip_message.parsed_[2].value) = 2


---------------------------------------------------------------------------
(* The transactions with their timers.  The transaction classes are         *)
(* outside the slice: what they send, pass up and schedule follows the      *)
(* project's description of the four state machines.  Time is counted in    *)
(* milliseconds and passes from one timer to the next.                      *)

\* The timer durations of the configuration object: T1, T2, T4 and the
\* provisional-response interval.  timerB, F, H and J last 64 * T1.
T1 == 500
T2 == 4000
T4 == 5000
ProvisionalInterval == 200
TimeoutDuration == 64 * T1

\* The messages a transaction may be handed after its Start.
MaxReceived == 2

\* The duration of the terminate timer: timerD, K, J or I.
WaitDuration(variant, reliable) ==
    IF reliable THEN 0
    ELSE CASE variant = "ClientInvite" -> 64 * T1
           [] variant = "ClientNonInvite" -> T4
           [] variant = "ServerNonInvite" -> 64 * T1
           [] OTHER -> T4

\* The retry interval after `interval`: doubled without a cap for timerA,
\* doubled up to T2 for timerE and timerG.
NextRetryIntervalUncapped(variant, interval) == 2 * interval

NextRetryInterval(variant, interval) ==
    IF variant = "ClientInvite" THEN 2 * interval
    ELSE IF 2 * interval > T2 THEN T2 ELSE 2 * interval

\* What a transaction is seen to do: a message sent on its channel, or a
\* call of the delegate, at a time.
TimedEvent(type, arg, channel, time) ==
    [type |-> type, arg |-> arg, channel |-> channel, time |-> time]

\* NetworkLayer::OnIncomingResponse that drops the response.
\* C29_InviteFinalResponses tells the two apart.
OnIncomingResponseDropped(evs, response, time) == evs

\* NetworkLayer::OnIncomingResponse
OnIncomingResponse(evs, response, time) ==
    Append(evs, TimedEvent("Delegate::OnIncomingResponse", response,
                           response.channel, time))

\* NetworkLayer::OnTimedOut that tells the delegate of a transport error.
\* C28_ClientsTimeOut tells the two apart.
OnTimedOutAsError(evs, request, time) ==
    Append(evs, TimedEvent("Delegate::OnTransportError", request,
                           request.channel, time))

\* NetworkLayer::OnTimedOut
OnTimedOut(evs, request, time) ==
    Append(evs, TimedEvent("Delegate::OnTimedOut", request,
                           request.channel, time))

\* NetworkLayer::OnTransportError
OnTransportError(evs, request, error, time) ==
    Append(evs, TimedEvent("Delegate::OnTransportError", request,
                           request.channel, time))

\* A message of a transaction: its kind (a method or a response class),
\* the branch of its top Via and the channel it travels on.
TimedMessage(t, kind) ==
    [kind |-> kind, branch |-> t.branch, channel |-> t.channel]

\* Channel::Send of a message of the transaction.
ChannelSend(evs, t, kind, time) ==
    Append(evs, TimedEvent("Channel::Send", TimedMessage(t, kind),
                           t.channel, time))

\* The method of the request of a transaction.
MethodOf(variant) ==
    IF variant \in {"ClientInvite", "ServerInvite"} THEN "INVITE"
    ELSE "OPTIONS"

\* A transaction reaches Terminated: its timers are cancelled and the
\* network layer is told.
TimedTerminate(r, time) ==
    [t |-> [r.t EXCEPT !.state = Terminated, !.timers = EmptyMap],
     evs |-> Append(r.evs,
                TimedEvent("NetworkLayer::OnTransactionTerminated",
                           TimedMessage(r.t, MethodOf(r.t.variant)),
                           r.t.channel, time))]

\* Start of a transaction at `time`.  A client transaction sends the
\* request and schedules retry (unreliable transports only) and timeout; a
\* server INVITE transaction schedules the provisional-response timer; a
\* server non-INVITE transaction schedules nothing.
TimedStart(variant, reliable, time) ==
    LET t == [variant |-> variant, reliable |-> reliable,
              state |-> InitialState(variant), interval |-> T1,
              timers |-> EmptyMap, last |-> "none", received |-> 0,
              branch |-> Branch1, channel |-> UdpPeer]
    IN  CASE variant \in {"ClientInvite", "ClientNonInvite"} ->
               [t |-> [t EXCEPT !.timers =
                          IF reliable
                          THEN Put(EmptyMap, "timeout", time + TimeoutDuration)
                          ELSE Put(Put(EmptyMap, "retry", time + T1),
                                   "timeout", time + TimeoutDuration)],
                evs |-> ChannelSend(<<>>, t, MethodOf(variant), time)]
          [] variant = "ServerInvite" ->
               [t |-> [t EXCEPT !.timers =
                          Put(EmptyMap, "provisional",
                              time + ProvisionalInterval)],
                evs |-> <<>>]
          [] OTHER -> [t |-> t, evs |-> <<>>]

\* The callback of timer `name` of transaction `t` at `time`.  The timer
\* that fired is no longer scheduled.
TimedTimer(t0, evs, name, time) ==
    LET t == [t0 EXCEPT !.timers = Erase(@, name)]
        request == TimedMessage(t, MethodOf(t.variant))
        next == NextRetryInterval(t.variant, t.interval)
    IN  CASE name = "retry" ->
               [t |-> [t EXCEPT !.interval = next,
                                !.timers = Put(@, "retry", time + next)],
                evs |-> ChannelSend(evs, t,
                           IF t.variant = "ServerInvite" THEN t.last
                           ELSE MethodOf(t.variant), time)]
          [] name = "timeout" ->
               TimedTerminate(
                   [t |-> t,
                    evs |-> IF t.variant = "ServerInvite"
                            THEN OnTransportError(evs, request, ERR_TIMED_OUT,
                                                  time)
                            ELSE OnTimedOut(evs, request, time)], time)
          [] name = "terminate" -> TimedTerminate([t |-> t, evs |-> evs], time)
          [] OTHER ->
               IF t.last = "none"
               THEN [t |-> [t EXCEPT !.last = "100"],
                     evs |-> ChannelSend(evs, t, "100", time)]
               ELSE [t |-> t, evs |-> evs]

\* The timers of a transaction that waits in Completed or Confirmed: the
\* terminate timer alone.
WaitTimers(t, time) ==
    Put(EmptyMap, "terminate", time + WaitDuration(t.variant, t.reliable))

\* ClientTransaction::HandleIncomingResponse of a response of `class`.
TimedResponse(t, evs, class, time) ==
    LET response == TimedMessage(t, class)
        up == OnIncomingResponse(evs, response, time)
        early == t.state \in {"Trying", "Calling", "Proceeding"}
    IN  CASE class = "1xx" /\ early ->
               [t |-> [t EXCEPT !.state = "Proceeding",
                                !.timers = Erase(@, "retry")],
                evs |-> up]
          [] class = "2xx" /\ early /\ t.variant = "ClientInvite" ->
               TimedTerminate([t |-> t, evs |-> up], time)
          [] class = "3xx-6xx" /\ early /\ t.variant = "ClientInvite" ->
               [t |-> [t EXCEPT !.state = "Completed",
                                !.timers = WaitTimers(t, time)],
                evs |-> ChannelSend(up, t, "ACK", time)]
          [] class = "3xx-6xx" /\ t.state = "Completed"
                /\ t.variant = "ClientInvite" ->
               [t |-> t, evs |-> ChannelSend(evs, t, "ACK", time)]
          [] class # "1xx" /\ early /\ t.variant = "ClientNonInvite" ->
               [t |-> [t EXCEPT !.state = "Completed",
                                !.timers = WaitTimers(t, time)],
                evs |-> up]
          [] OTHER -> [t |-> t, evs |-> evs]

\* ServerTransaction::HandleIncomingRequest of a retransmission of the
\* request ("request") or of an ACK.
TimedRequest(t, evs, kind, time) ==
    CASE kind = "request" /\ t.state \in {"Proceeding", "Completed"}
            /\ t.last # "none" ->
           [t |-> t, evs |-> ChannelSend(evs, t, t.last, time)]
      [] kind = "ACK" /\ t.variant = "ServerInvite"
            /\ t.state = "Completed" ->
           [t |-> [t EXCEPT !.state = "Confirmed",
                            !.timers = WaitTimers(t, time)],
            evs |-> evs]
      [] OTHER -> [t |-> t, evs |-> evs]

\* ServerTransaction::Send of a response of `class` of the application.
TimedSend(t, evs, class, time) ==
    LET sent == ChannelSend(evs, t, class, time)
        t1 == [t EXCEPT !.last = class]
        early == t.state \in {"Trying", "Proceeding"}
    IN  CASE class = "1xx" /\ early ->
               [t |-> [t1 EXCEPT !.state = "Proceeding"], evs |-> sent]
          [] class = "2xx" /\ early /\ t.variant = "ServerInvite" ->
               TimedTerminate([t |-> t1, evs |-> sent], time)
          [] class = "3xx-6xx" /\ early /\ t.variant = "ServerInvite" ->
               [t |-> [t1 EXCEPT
                         !.state = "Completed",
                         !.interval = T1,
                         !.timers =
                             IF t.reliable
                             THEN Put(EmptyMap, "timeout",
                                      time + TimeoutDuration)
                             ELSE Put(Put(EmptyMap, "retry", time + T1),
                                      "timeout", time + TimeoutDuration)],
                evs |-> sent]
          [] class # "1xx" /\ early /\ t.variant = "ServerNonInvite" ->
               [t |-> [t1 EXCEPT !.state = "Completed",
                                 !.timers = WaitTimers(t, time)],
                evs |-> sent]
          [] OTHER -> [t |-> t, evs |-> evs]

\* The channel reports an error to the transaction.
TimedError(t, evs, time) ==
    IF t.state = Terminated THEN [t |-> t, evs |-> evs]
    ELSE TimedTerminate(
        [t |-> t,
         evs |-> OnTransportError(evs, TimedMessage(t, MethodOf(t.variant)),
                                  ERR_FAILED, time)], time)

\* Close of a transaction: every timer is cancelled.
TimedClose(t, evs, time) ==
    [t |-> [t EXCEPT !.state = Terminated, !.timers = EmptyMap],
     evs |-> evs]

----------------------------------------------------------------------------
(* The specification TimerSpec: one transaction, its timers and the clock.  *)
(* transaction_state holds the transaction under its branch, events what    *)
(* the channel and the delegate saw with the time of each, arguments the    *)
(* last thing that happened to the transaction, now the clock.              *)

TimedVariants ==
    {"ClientInvite", "ClientNonInvite", "ServerInvite", "ServerNonInvite"}

\* How long after the last thing that happened an input may arrive.
ArrivalDelays == {0, 100}

TimedObject == transaction_state[Branch1]

\* The deadline of the timer that fires next.
Earliest(timers) ==
    CHOOSE d \in {timers[n] : n \in DOMAIN timers} :
        \A n \in DOMAIN timers : d <= timers[n]

\* An input may arrive at `time`: no timer was due before it.
MayArriveAt(t, time) ==
    /\ t.received < MaxReceived
    /\ \A n \in DOMAIN t.timers : time <= t.timers[n]

\* A transaction of each variant was started at time 0.
TimerInit ==
    /\ factories_ = {}
    /\ channels_ = EmptyMap
    /\ client_transactions_ = EmptyMap
    /\ server_transactions_ = EmptyMap
    /\ op = Idle
    /\ posted_ = <<>>
    /\ destroyed = FALSE
    /\ now = 0
    /\ ssl_cert_error_handler_factory_ = FALSE
    /\ ssl_cert_error_transactions_ = <<>>
    /\ results = [operation |-> "none"]
    /\ sip_message = NewMessage
    /\ arguments = [kind |-> "Start"]
    /\ \E variant \in TimedVariants, reliable \in BOOLEAN :
          /\ transaction_state =
                 Put(EmptyMap, Branch1, TimedStart(variant, reliable, 0).t)
          /\ events = TimedStart(variant, reliable, 0).evs

\* A handler of the transaction ran at `time` and left r.
TimedStep(kind, input, time, r) ==
    /\ transaction_state' = Put(EmptyMap, Branch1, r.t)
    /\ events' = r.evs
    /\ now' = time
    /\ arguments' = [kind |-> kind, input |-> input]
    /\ UNCHANGED <<factories_, channels_, client_transactions_,
                   server_transactions_, op, posted_, destroyed,
                   ssl_cert_error_handler_factory_,
                   ssl_cert_error_transactions_, results, sip_message>>

\* An input of the transaction was handled.
Received(r) == [r EXCEPT !.t.received = @ + 1]

\* The task runner runs the timer that is due first; the clock is then at
\* its deadline.
TimerFires ==
    /\ DOMAIN TimedObject.timers # {}
    /\ \E name \in DOMAIN TimedObject.timers :
          /\ TimedObject.timers[name] = Earliest(TimedObject.timers)
          /\ TimedStep("Timer", name, TimedObject.timers[name],
                       TimedTimer(TimedObject, events, name,
                                  TimedObject.timers[name]))

\* The channel hands a response to a client transaction.
TimerIncomingResponse ==
    /\ TimedObject.variant \in {"ClientInvite", "ClientNonInvite"}
    /\ \E class \in {"1xx", "2xx", "3xx-6xx"}, delay \in ArrivalDelays :
          /\ MayArriveAt(TimedObject, now + delay)
          /\ TimedStep("HandleIncomingResponse", class, now + delay,
                       Received(TimedResponse(TimedObject, events, class,
                                              now + delay)))

\* The channel hands a retransmitted request or an ACK to a server
\* transaction.
TimerIncomingRequest ==
    /\ TimedObject.variant \in {"ServerInvite", "ServerNonInvite"}
    /\ \E kind \in {"request", "ACK"}, delay \in ArrivalDelays :
          /\ MayArriveAt(TimedObject, now + delay)
          /\ TimedStep("HandleIncomingRequest", kind, now + delay,
                       Received(TimedRequest(TimedObject, events, kind,
                                             now + delay)))

\* The application sends a response through a server transaction.
TimerSend ==
    /\ TimedObject.variant \in {"ServerInvite", "ServerNonInvite"}
    /\ \E class \in {"1xx", "2xx", "3xx-6xx"}, delay \in ArrivalDelays :
          /\ MayArriveAt(TimedObject, now + delay)
          /\ TimedStep("Send", class, now + delay,
                       Received(TimedSend(TimedObject, events, class,
                                          now + delay)))

\* The channel of the transaction fails.
TimerTransportError ==
    \E delay \in ArrivalDelays :
        /\ MayArriveAt(TimedObject, now + delay)
        /\ TimedStep("TransportError", ERR_FAILED, now + delay,
                     Received(TimedError(TimedObject, events, now + delay)))

\* The network layer closes the transaction.
TimerClose ==
    \E delay \in ArrivalDelays :
        /\ MayArriveAt(TimedObject, now + delay)
        /\ TimedStep("Close", "none", now + delay,
                     Received(TimedClose(TimedObject, events, now + delay)))

TimerNext ==
    \/ TimerFires
    \/ TimerIncomingResponse
    \/ TimerIncomingRequest
    \/ TimerSend
    \/ TimerTransportError
    \/ TimerClose

\* The task runner runs a timer that is due: a scheduled timer is not
\* starved.
TimerSpec == TimerInit /\ [][TimerNext]_vars /\ WF_vars(TimerFires)

----------------------------------------------------------------------------
(* The retry schedule of a client non-INVITE transaction.                   *)

\* The times at which the channel saw a message of the transaction.
SendTimes(evs) ==
    {evs[i].time : i \in {j \in DOMAIN evs : evs[j].type = "Channel::Send"}}

\* The times at which the delegate was told of a timeout.
TimedOutTimes(evs) ==
    {evs[i].time :
        i \in {j \in DOMAIN evs : evs[j].type = "Delegate::OnTimedOut"}}

\* A client non-INVITE transaction over an unreliable transport to which
\* nothing has happened but its own timers.
Undisturbed ==
    /\ TimedObject.variant = "ClientNonInvite"
    /\ ~TimedObject.reliable
    /\ TimedObject.received = 0

DoublingSchedule == {0, 500, 1500, 3500, 7500, 15500}

CappedSchedule ==
    {0, 500, 1500, 3500, 7500, 11500, 15500, 19500, 23500, 27500, 31500}

\* The schedule `schedule` is kept: the request was sent at exactly the
\* times of the schedule that have come, the timeout is reported at 32 s
\* and not before, and the transaction is then Terminated.
KeepsSchedule(schedule) ==
    /\ SendTimes(events) = {s \in schedule : s <= now}
    /\ TimedOutTimes(events) = IF now >= 32000 THEN {32000} ELSE {}
    /\ (TimedObject.state = Terminated) = (now >= 32000)
    /\ (TimedObject.state # Terminated) => TimedObject.state = "Trying"
    /\ now <= 32000

\* C27 as stated: an undisturbed client non-INVITE transaction over an
\* unreliable transport sends the request at 0, 500, 1500, 3500, 7500 and
\* 15500 ms and at no other time, reports the timeout at 32 s and is then
\* Terminated and silent.
C27_DoublingSchedule == Undisturbed => KeepsSchedule(DoublingSchedule)

\* C27, amended: the interval doubles from T1 and stays at T2 once it
\* reaches it, so the request is sent at 0, 500, 1500, 3500 and 7500 ms and
\* then every 4 s up to 31500 ms; the timeout is reported at 32 s, and the
\* transaction is then Terminated and sends nothing more.
C27_CappedRetrySchedule == Undisturbed => KeepsSchedule(CappedSchedule)

\* The undisturbed transaction timed out.
C27_Witness ==
    /\ Undisturbed
    /\ now = 32000
    /\ TimedObject.state = Terminated
    /\ 31500 \in SendTimes(events)

----------------------------------------------------------------------------
(* The timers that bound the life of a transaction.                         *)

IsClient == TimedObject.variant \in {"ClientInvite", "ClientNonInvite"}

\* A timer is scheduled whose callback ends the transaction.
DeadlinePending ==
    \/ "timeout" \in DOMAIN TimedObject.timers
    \/ "terminate" \in DOMAIN TimedObject.timers

\* The transaction ended on its timeout timer, nothing else having
\* happened to it, and the delegate was told OnTimedOut at that time.
TimedOutReported ==
    /\ TimedObject.state = Terminated
    /\ now = TimeoutDuration
    /\ TimedOutTimes(events) = {TimeoutDuration}

\* C28 as stated: a transaction of any variant that has not ended has a
\* timer scheduled that ends it, whatever else happens; and one that ended
\* with nothing having reached it told the delegate OnTimedOut.
C28_EveryVariantTimesOut ==
    /\ TimedObject.state # Terminated => DeadlinePending
    /\ (TimedObject.state = Terminated /\ TimedObject.received = 0)
          => TimedOutReported

\* C28, amended: a client transaction (INVITE or non-INVITE) that has not
\* ended always has a timer scheduled that ends it, so under timer
\* fairness it reaches Terminated; and one that no response, error or
\* Close reaches ends at 64*T1 with OnTimedOut reported to the delegate.
C28_ClientsTimeOut ==
    /\ []((IsClient /\ TimedObject.state # Terminated) => DeadlinePending)
    /\ IsClient ~> (TimedObject.state = Terminated)
    /\ (IsClient /\ TimedObject.received = 0)
          ~> (TimedObject.received = 0 => TimedOutReported)

\* A client INVITE transaction over a reliable transport timed out.
C28_Witness ==
    /\ TimedObject.variant = "ClientInvite"
    /\ TimedObject.reliable
    /\ TimedObject.received = 0
    /\ TimedOutReported

----------------------------------------------------------------------------
(* Final responses of a client INVITE transaction.                          *)

\* What the channel and the delegate saw in the last step.
NewEvents == SubSeq(events', Len(events) + 1, Len(events'))

\* The first message of the transaction the channel saw: the INVITE.
InviteSent ==
    events[CHOOSE i \in DOMAIN events :
              /\ events[i].type = "Channel::Send"
              /\ \A j \in 1..(i - 1) : events[j].type # "Channel::Send"]

\* The last step handled a response of `class` in a client INVITE
\* transaction that was in one of `states`.
InviteReceives(class, states) ==
    /\ TimedObject.variant = "ClientInvite"
    /\ TimedObject.state \in states
    /\ TimedObject'.received = TimedObject.received + 1
    /\ arguments' = [kind |-> "HandleIncomingResponse", input |-> class]

\* The event is the ACK of the transaction: sent on the channel of the
\* INVITE with the branch of the INVITE.
IsAckOfInvite(e) ==
    /\ e.type = "Channel::Send"
    /\ e.arg.kind = "ACK"
    /\ e.channel = InviteSent.channel
    /\ e.arg.branch = InviteSent.arg.branch

\* The event passes a response of `class` to the delegate.
IsPassedUp(e, class) ==
    /\ e.type = "Delegate::OnIncomingResponse"
    /\ e.arg.kind = class

\* C29: a client INVITE transaction that receives a 2xx passes it up and is
\* Terminated, with no ACK sent; one that receives a 3xx-6xx passes it up,
\* enters Completed and sends an ACK on the channel and with the branch of
\* the INVITE; a 3xx-6xx received in Completed makes it send the ACK again
\* and is not passed up.
C29_InviteFinalResponses ==
    [][/\ InviteReceives("2xx", {"Calling", "Proceeding"}) =>
            /\ TimedObject'.state = Terminated
            /\ Len(NewEvents) = 2
            /\ IsPassedUp(NewEvents[1], "2xx")
            /\ NewEvents[2].type = "NetworkLayer::OnTransactionTerminated"
       /\ InviteReceives("3xx-6xx", {"Calling", "Proceeding"}) =>
            /\ TimedObject'.state = "Completed"
            /\ Len(NewEvents) = 2
            /\ IsPassedUp(NewEvents[1], "3xx-6xx")
            /\ IsAckOfInvite(NewEvents[2])
       /\ InviteReceives("3xx-6xx", {"Completed"}) =>
            /\ TimedObject'.state = "Completed"
            /\ Len(NewEvents) = 1
            /\ IsAckOfInvite(NewEvents[1])]_vars

\* A client INVITE transaction in Completed sent its ACK twice and passed
\* the final response up once.
C29_Witness ==
    /\ TimedObject.variant = "ClientInvite"
    /\ TimedObject.state = "Completed"
    /\ Cardinality({i \in DOMAIN events : IsAckOfInvite(events[i])}) = 2
    /\ Cardinality({i \in DOMAIN events :
                        IsPassedUp(events[i], "3xx-6xx")}) = 1

\* A client INVITE transaction ended on a 2xx without an ACK.
InviteAcceptedWithoutAck ==
    /\ TimedObject.variant = "ClientInvite"
    /\ TimedObject.state = Terminated
    /\ \E i \in DOMAIN events : IsPassedUp(events[i], "2xx")
    /\ \A i \in DOMAIN events : ~IsAckOfInvite(events[i])

----------------------------------------------------------------------------
(* Close of a transaction and the use of its channel.                       *)

\* The positions of the calls of Close of a transaction whose channel still
\* has a context.
CloseCalls(evs) ==
    {i \in CallsOfType(evs, "ClientTransaction::Close")
           \cup CallsOfType(evs, "ServerTransaction::Close") :
        evs[i].in_channels}

\* C30 as stated: when Close of a transaction is called, and with it its
\* timers are cancelled, the transaction still holds its use of the channel
\* context: the use is released after the timers are cancelled.
C30_TimersCancelledBeforeRelease ==
    \A i \in CloseCalls(events) : events[i].arg \in events[i].users

\* Close is called on a transaction whose use of the channel context was
\* released before.
ReleasedBeforeClose ==
    \A i \in CloseCalls(events) : events[i].arg \notin events[i].users

\* A transaction was closed after the last use of its channel was released
\* and the idle timer of the channel started.
ClosedAfterRelease ==
    \E i \in CloseCalls(events) :
        /\ events[i].users = {}
        /\ events[i].destination \in DOMAIN channels_
        /\ channels_[events[i].destination].refs_ = 0
        /\ channels_[events[i].destination].timer_

\* A transaction that ended or was closed has no timer scheduled, so that
\* none of its timer callbacks runs.
NoTimerAfterClose ==
    (TimedObject.state = Terminated) => (DOMAIN TimedObject.timers = {})

----------------------------------------------------------------------------
(* A delegate that answers a request from within OnIncomingRequest.         *)

\* The response the delegate makes for `request`: the topmost Via and the
\* CSeq of the request, and the To tag of the request or one of its own.
AnswerTo(request, tag) ==
    Response("Outgoing", request.cseq_method, request.via, tag)

\* NetworkLayer::HandleIncomingRequest, where the delegate calls
\* NetworkLayer::Send with its response from within OnIncomingRequest.  An
\* ACK has no response.
HandleIncomingRequestAnswered(s, destination, request, tag) ==
    IF request.method = "ACK"
    THEN HandleIncomingRequest(s, destination, request)
    ELSE Return(NetworkLayerSend(
                    HandleIncomingRequest(s, destination, request),
                    AnswerTo(request, tag), NullCallback, NoBranch, OK, OK),
                "void")

\* NetworkLayer::OnIncomingMessage for a request, with that delegate.
OnIncomingMessageAnswered(s, destination, message, tag) ==
    LET request == StampServerTopmostVia(message, destination)
        id == ServerTransactionIdOfRequest(request)
    IN  IF id \in DOMAIN s.servers
        THEN Call(s, "ServerTransaction::HandleIncomingRequest",
                  s.servers[id].channel, id)
        ELSE HandleIncomingRequestAnswered(s, destination, request, tag)

\* The connected channel of `destination` delivers a request to a delegate
\* that answers at once.
IncomingRequestAnswered(destination) ==
    /\ destination \in DOMAIN channels_
    /\ channels_[destination].connected
    /\ \E message \in ReceivedRequests(destination), tag \in {"", "tt"} :
          Done("OnIncomingMessage", destination, message, NullCallback,
               NoAnswer,
               OnIncomingMessageAnswered(Members, destination, message, tag))

AnsweredNext ==
    \/ \E protocol \in Protocols : RegisterChannelFactory(protocol)
    \/ \E destination \in Destinations : Connect(destination)
    \/ \E destination \in Destinations : ChannelConnected(destination)
    \/ \E destination \in Destinations : IncomingRequestAnswered(destination)
    \/ SendOfResponse
    \/ \E destination \in Destinations : ChannelClosed(destination)
    \/ \E id \in DOMAIN client_transactions_ \cup DOMAIN server_transactions_ :
          TransactionTerminated(id)
    \/ Returned

AnsweredSpec == Init /\ [][AnsweredNext]_vars

\* The call of OnIncomingRequest at position i of `evs` was made with the
\* server transaction of the request registered, bound to the channel and
\* counted as a user of its context.
RegisteredWhenToldAt(evs, i) ==
    /\ evs[i].in_channels
    /\ evs[i].arg \in evs[i].bound
    /\ evs[i].arg \in evs[i].users

\* The answer made within the call at position i went to the server
\* transaction of the request and not to a channel.
AnswerRoutedAt(evs, i) ==
    /\ Len(evs) = i + 1
    /\ evs[i + 1].type = "ServerTransaction::Send"
    /\ evs[i + 1].arg = evs[i].arg
    /\ CallsOfType(evs, "Channel::Send") = {}

\* C31: when OnIncomingRequest is delivered for a new request, its server
\* transaction is registered and counted on its channel context, and the
\* response the delegate sends from within the callback goes to that
\* server transaction, not to a channel.
C31_AnswerInCallback ==
    [][ (Runs("OnIncomingMessage") /\ op'.message.method # "ACK") =>
          \A i \in CallsOfType(events', "Delegate::OnIncomingRequest") :
              /\ RegisteredWhenToldAt(events', i)
              /\ AnswerRoutedAt(events', i)
      ]_vars

\* The part of C31 that the code keeps: the transaction is registered and
\* counted when the delegate is told, and the answer reaches it when the
\* identifier of the response is the one of the request (a branch with the
\* magic cookie, or the To tag of the request).
AnswerRoutedBySameId ==
    [][ (Runs("OnIncomingMessage") /\ op'.message.method # "ACK") =>
          \A i \in CallsOfType(events', "Delegate::OnIncomingRequest") :
              /\ RegisteredWhenToldAt(events', i)
              /\ Len(events') = i + 1
              /\ \/ AnswerRoutedAt(events', i)
                 \/ /\ events'[i + 1].type = "Channel::Send"
                    /\ ServerTransactionIdOfResponse(events'[i + 1].arg)
                          # events'[i].arg
      ]_vars

\* The answer made within OnIncomingRequest went straight to the channel.
AnswerSentToChannel ==
    /\ op.name = "OnIncomingMessage"
    /\ CallsOfType(events, "Delegate::OnIncomingRequest") # {}
    /\ CallsOfType(events, "Channel::Send") # {}

\* The answer made within OnIncomingRequest went to the server transaction.
AnswerSentToTransaction ==
    /\ op.name = "OnIncomingMessage"
    /\ CallsOfType(events, "Delegate::OnIncomingRequest") # {}
    /\ CallsOfType(events, "ServerTransaction::Send") # {}

----------------------------------------------------------------------------
(* Contexts that nobody uses.                                               *)

\* The context of `d` has no use and no registered transaction.
Unused(d) ==
    /\ channels_[d].refs_ = 0
    /\ channels_[d].transactions_ = {}

\* C32: a context with reference count zero and no registered transaction
\* is on its way to being closed and removed: once its channel is connected
\* and no request waits in it, its idle timer, the one thing that closes a
\* channel nobody uses, is running, however the context was made and
\* whether or not a transaction ever used it.
C32_UnusedIsClosed ==
    \A d \in DOMAIN channels_ :
        ( /\ Unused(d)
          /\ channels_[d].connected
          /\ channels_[d].initial_request_ = NoMessage )
           => channels_[d].timer_

\* The idle timer of a context runs only after a release that left no use:
\* a context that was never used has no timer.
UnusedSinceReleaseIsClosed ==
    [][ \A d \in DOMAIN channels_' :
           (channels_'[d].timer_ /\ Unused(d)')
              => /\ d \in DOMAIN channels_
                 /\ \/ channels_[d].timer_
                    \/ channels_[d].refs_ = 1
      ]_vars

\* A connected channel that Connect made and nobody used: no use, no
\* transaction, no timer, and no handler running.
ConnectedAndForgotten ==
    /\ op = Idle
    /\ \E d \in DOMAIN channels_ :
          /\ Unused(d)
          /\ channels_[d].connected
          /\ channels_[d].initial_request_ = NoMessage
          /\ ~channels_[d].timer_

----------------------------------------------------------------------------
(* Send of a request to a destination that has a context.                   *)

\* The step is a Send of an outgoing request whose next hop has a context.
SendsOnExisting ==
    /\ Runs("Send")
    /\ isaRequest(op'.message)
    /\ op'.message.direction = "Outgoing"
    /\ op'.destination \in DOMAIN channels_

\* C33: Send of a request to a connected channel makes a client
\* transaction, puts it into the client map and into the transaction set of
\* the context and adds one to the reference count, and the request goes
\* to the channel; an ACK goes to the channel and changes neither the maps
\* nor the count; on a channel that is not connected Send returns
\* ERR_SOCKET_NOT_CONNECTED, makes no transaction, calls nothing and leaves
\* the context, its initial request included, as it was.
C33_SendOnExisting ==
    [][ SendsOnExisting =>
          LET d == op'.destination
              request == op'.message
          IN  IF ~channels_[d].connected
              THEN /\ op'.ret = ERR_SOCKET_NOT_CONNECTED
                   /\ MembersUnchanged
                   /\ events' = <<>>
              ELSE IF request.method = "ACK"
              THEN /\ MembersUnchanged
                   /\ Len(events') = 1
                   /\ events'[1].type = "Channel::Send"
                   /\ events'[1].destination = d
                   /\ IsInitial(events'[1].arg, request)
              ELSE /\ Len(events') = 2
                   /\ events'[1].type = "ClientTransaction::Start"
                   /\ events'[2].type = "Channel::Send"
                   /\ events'[2].destination = d
                   /\ IsInitial(events'[2].arg, request)
                   /\ LET id == ClientTransactionIdOfRequest(events'[2].arg)
                      IN  /\ events'[1].arg = id
                          /\ id \notin DOMAIN client_transactions_
                          /\ client_transactions_' =
                                Put(client_transactions_, id,
                                    [id |-> id, channel |-> d])
                          /\ server_transactions_' = server_transactions_
                          /\ channels_' =
                                [channels_ EXCEPT
                                   ![d].transactions_ = @ \cup {id},
                                   ![d].refs_ = @ + 1,
                                   ![d].timer_ = FALSE]
      ]_vars

\* An ACK went to a connected channel that carries a client transaction,
\* and the channel map and the transaction maps are as before.
C33_Witness ==
    /\ op.name = "Send"
    /\ op.message.method = "ACK"
    /\ op.destination \in DOMAIN channels_
    /\ channels_[op.destination].refs_ = 1
    /\ Cardinality(channels_[op.destination].transactions_) = 1
    /\ Len(events) = 1
    /\ events[1].type = "Channel::Send"

\* A request was refused by a context that waits for its connection and
\* holds an initial request.
RefusedWhileConnecting ==
    /\ op.name = "Send"
    /\ op.ret = ERR_SOCKET_NOT_CONNECTED
    /\ op.destination \in DOMAIN channels_
    /\ channels_[op.destination].initial_request_ # NoMessage

----------------------------------------------------------------------------
(* Enumerating the values of a header.                                      *)

\* std::string::npos, for an index into parsed_.
npos == -1

\* base::EqualsCaseInsensitiveASCII on header names.
EqualsCaseInsensitiveASCII(a, b) == ToLowerASCII(a) = ToLowerASCII(b)

\* Message::FindHeader(from, search): the index, counted from 0, of the
\* first entry at or after `from` that is no continuation and has the name.
FindHeader(parsed, from, search) ==
    LET found == {i \in from..(Len(parsed) - 1) :
                    /\ ~is_continuation(parsed[i + 1])
                    /\ EqualsCaseInsensitiveASCII(search, parsed[i + 1].name)}
    IN  IF found = {} THEN npos
        ELSE CHOOSE i \in found : \A j \in found : i <= j

\* EnumerateHeader that looks for the name at every call: the
\* continuations are passed over.  C34_EnumerateHeader tells the two apart.
EnumerateHeaderTopLevelOnly(parsed, iter, name) ==
    LET i == IF iter >= Len(parsed) THEN npos
             ELSE FindHeader(parsed, iter, name)
    IN  IF i = npos THEN [found |-> FALSE, iter |-> iter, value |-> <<>>]
        ELSE [found |-> TRUE, iter |-> i + 1, value |-> parsed[i + 1].value]

\* Message::EnumerateHeader(iter, name, value): one call.  `iter` is 0 at
\* the start; an entry of parsed_ is counted from 0 as in the code.
EnumerateHeader(parsed, iter, name) ==
    LET i == IF iter = 0 THEN FindHeader(parsed, 0, name)
             ELSE IF iter >= Len(parsed) THEN npos
             ELSE IF ~is_continuation(parsed[iter + 1])
             THEN FindHeader(parsed, iter, name)
             ELSE iter
    IN  IF i = npos THEN [found |-> FALSE, iter |-> iter, value |-> <<>>]
        ELSE [found |-> TRUE, iter |-> i + 1, value |-> parsed[i + 1].value]

\* The loop of a caller: EnumerateHeader until it returns false; the values
\* it gave, in order.
RECURSIVE EnumeratedValues(_, _, _)
EnumeratedValues(parsed, iter, name) ==
    LET r == EnumerateHeader(parsed, iter, name)
    IN  IF ~r.found THEN <<>>
        ELSE <<r.value>> \o EnumeratedValues(parsed, r.iter, name)

\* The name of the header that entry `i` of parsed_ belongs to: its own, or
\* for a continuation that of the last entry with a name before it.
RECURSIVE OwnerName(_, _)
OwnerName(parsed, i) ==
    IF ~is_continuation(parsed[i]) \/ i = 1 THEN parsed[i].name
    ELSE OwnerName(parsed, i - 1)

\* The values of the entries of the headers named `name`, in order.
RECURSIVE ValuesNamed(_, _, _)
ValuesNamed(parsed, i, name) ==
    IF i > Len(parsed) THEN <<>>
    ELSE (IF EqualsCaseInsensitiveASCII(OwnerName(parsed, i), name)
          THEN <<parsed[i].value>> ELSE <<>>)
         \o ValuesNamed(parsed, i + 1, name)

\* The commas of a value.
CommasOf(value) == {i \in DOMAIN value : value[i].kind = "comma"}

\* The entries parsed_ has for the header that begins at entry `i`.
EntriesFrom(parsed, i) == LastContinuation(parsed, i) - i + 1

\* The entries that begin a header, in order.
RECURSIVE HeaderStarts(_, _)
HeaderStarts(parsed, i) ==
    IF i > Len(parsed) THEN <<>>
    ELSE <<i>> \o HeaderStarts(parsed, LastContinuation(parsed, i) + 1)

\* The names that EnumerateHeader is asked for.
EnumeratedNames == {"Via", "via", "Contact", "To", "www-authenticate", "v"}

\* C34: a header line that is non-coalescing or has an empty value has one
\* entry in the index, a coalescing one an entry with the name and one
\* continuation for every comma; EnumerateHeader, called until it returns
\* false, gives for a name the values of the entries of the headers with
\* that name, whatever its case, continuations included, in order, and
\* nothing else; EnumerateHeaderLines gives every header line once, with
\* its whole value.
C34_EnumerateHeader ==
    LET parsed == sip_message.parsed_
        lines == IndexedLines(sip_message)
        starts == HeaderStarts(parsed, 1)
    IN  parsed # <<>> =>
            /\ Len(starts) = Len(lines)
            /\ \A k \in DOMAIN starts :
                  EntriesFrom(parsed, starts[k]) =
                      IF lines[k].value = <<>>
                         \/ IsNonCoalescingHeader(lines[k].name)
                      THEN 1
                      ELSE 1 + Cardinality(CommasOf(lines[k].value))
            /\ \A name \in EnumeratedNames :
                  EnumeratedValues(parsed, 0, name)
                      = ValuesNamed(parsed, 1, name)
            /\ EnumerateHeaderLines(parsed, 1) = lines

\* The index holds a header with a continuation, and after it another
\* header of another name.
C34_Witness ==
    LET parsed == sip_message.parsed_
    IN  /\ Len(parsed) = 3
        /\ is_continuation(parsed[2])
        /\ ~is_continuation(parsed[3])
        /\ ~EqualsCaseInsensitiveASCII(parsed[1].name, parsed[3].name)
        /\ Len(EnumeratedValues(parsed, 0, "via")) = 2

\* The index holds a non-coalescing header whose value has a comma, as one
\* entry.
NonCoalescingKeptWhole ==
    \E i \in DOMAIN sip_message.parsed_ :
        /\ IsNonCoalescingHeader(sip_message.parsed_[i].name)
        /\ CommasOf(sip_message.parsed_[i].value) # {}

\* The index holds a header with an empty value, as one entry.
EmptyValueKeptAsOne ==
    \E i \in DOMAIN sip_message.parsed_ :
        /\ ~is_continuation(sip_message.parsed_[i])
        /\ sip_message.parsed_[i].value = <<>>
        /\ EntriesFrom(sip_message.parsed_, i) = 1

---------------------------------------------------------------------------
(* C35: the transaction maps and the transaction sets of the contexts.      *)

\* The contexts whose transaction set holds `id`.
ContextsOf(id) ==
    {d \in DOMAIN channels_ : id \in channels_[d].transactions_}

\* The channel of the registered transaction `id`.
ChannelOfTransaction(id) ==
    IF IsClientId(id) THEN client_transactions_[id].channel
    ELSE server_transactions_[id].channel

\* Every id of a transaction set is a key of one of the two maps, and every
\* transaction of the maps is in the set of the context of its channel and
\* in no other.
MapsMatchSets ==
    /\ \A d \in DOMAIN channels_ :
          channels_[d].transactions_
              \subseteq DOMAIN client_transactions_
                         \cup DOMAIN server_transactions_
    /\ \A id \in DOMAIN client_transactions_ \cup DOMAIN server_transactions_ :
          ContextsOf(id) = {ChannelOfTransaction(id)}

\* The ids a handler started, and those it closed, with the position of
\* the last such call.
StartedAt(evs, id) ==
    {i \in DOMAIN evs :
        /\ evs[i].type \in {"ClientTransaction::Start",
                            "ServerTransaction::Start"}
        /\ evs[i].arg = id}
ClosedAt(evs, id) ==
    {i \in DOMAIN evs :
        /\ evs[i].type \in {"ClientTransaction::Close",
                            "ServerTransaction::Close"}
        /\ evs[i].arg = id}
TouchedIds(evs) ==
    {evs[i].arg : i \in {j \in DOMAIN evs :
        evs[j].type \in {"ClientTransaction::Start", "ServerTransaction::Start",
                         "ClientTransaction::Close", "ServerTransaction::Close"}}}

\* A handler leaves in the maps, under their ids, the transactions it
\* started and did not close, takes out those it closed, and leaves every
\* other transaction where it was.
StartedAreRegistered ==
    op = Idle =>
        /\ \A id \in TouchedIds(events') :
              IF /\ StartedAt(events', id) # {}
                 /\ \A c \in ClosedAt(events', id) :
                        \E b \in StartedAt(events', id) : b > c
              THEN /\ Registered(Members, id)'
                   /\ IF IsClientId(id) THEN client_transactions_'[id].id = id
                      ELSE server_transactions_'[id].id = id
              ELSE ~Registered(Members, id)'
        /\ \A id \in (DOMAIN client_transactions_ \cup DOMAIN server_transactions_)
                        \ TouchedIds(events') :
              /\ Registered(Members, id)'
              /\ ChannelOfTransaction(id)' = ChannelOfTransaction(id)
        /\ (DOMAIN client_transactions_' \cup DOMAIN server_transactions_')
              \subseteq DOMAIN client_transactions_
                         \cup DOMAIN server_transactions_
                         \cup TouchedIds(events')

---------------------------------------------------------------------------
(* C36: the completion callback of a send that waits for its connection.    *)

\* The handler that is about to return ends the wait of the callback that
\* the context of `destination` holds: the context is gone or holds the
\* callback no more.
WaitEnds(destination) ==
    /\ op = Idle
    /\ destination \in DOMAIN channels_
    /\ channels_[destination].initial_callback_ # NullCallback
    /\ \/ destination \notin DOMAIN channels_'
       \/ channels_'[destination].initial_callback_ = NullCallback

\* How often the callback of the send to `destination` is completed by the
\* handler: run by the network layer, or given to a Channel::Send that
\* returned ERR_IO_PENDING and completes it later.
Completions(destination) ==
    Cardinality(CallsOf(events', "Callback::Run", destination))
    + (IF /\ CallsOf(events', "Channel::Send", destination) # {}
          /\ op'.sent = ERR_IO_PENDING
          /\ op'.name = "OnChannelConnected"
       THEN 1 ELSE 0)

\* C36: the non-null completion callback of a request Send that returned
\* pending is invoked exactly once when the connection attempt concludes,
\* whichever way it concludes: by a connect that succeeds, with the send
\* completing or failing, by a connect that fails, by a close of the
\* channel, by the dismissal of the attempt after a certificate error, or
\* by the idle timeout.
C36_CallbackExactlyOnce ==
    [][\A destination \in Destinations :
          WaitEnds(destination) /\ op'.name # "~NetworkLayer"
              => Completions(destination) = 1]_vars

\* What holds: OnChannelConnected completes the callback exactly once, and
\* no handler completes it twice.
ConnectCompletesCallbackOnce ==
    [][\A destination \in Destinations :
          /\ WaitEnds(destination) /\ op'.name = "OnChannelConnected"
                => Completions(destination) = 1
          /\ WaitEnds(destination) => Completions(destination) <= 1
          /\ op = Idle /\ ~WaitEnds(destination)
                => CallsOf(events', "Callback::Run", destination) = {}]_vars

\* The dismissal of a connection attempt destroyed a context that held a
\* callback, and ran nothing.
CallbackDroppedByDismissal ==
    /\ op.name \in {"OnSSLCertificateError", "OnSSLCertErrorTransactionComplete"}
    /\ op.destination \notin DOMAIN channels_
    /\ CallsOf(events, "Channel::Close", op.destination) # {}
    /\ CallsOfType(events, "Callback::Run") = {}
    /\ \E i \in CallsOfType(events, "MessageLoop::PostTask") : TRUE

\* The idle timeout destroyed a context that was still connecting.
CallbackDroppedByIdleTimeout ==
    /\ op.name = "OnIdleChannelTimedOut"
    /\ \E i \in CallsOf(events, "Channel::CloseWithError", op.destination) :
          ~events[i].connected
    /\ CallsOfType(events, "Callback::Run") = {}

---------------------------------------------------------------------------
(* C37: the idle timer and the users of a channel.                          *)

\* The upper layer released the channel of `d` no more often than it
\* requested it.
ReleasesMatched(d) == channels_[d].holders >= 0

\* The idle timer of a context runs only while nothing uses the context.
TimerOnlyWhenUnused ==
    \A d \in DOMAIN channels_ :
        channels_[d].timer_ /\ ReleasesMatched(d) =>
            /\ channels_[d].refs_ = 0
            /\ channels_[d].transactions_ = {}
            /\ BoundTo(Members, d) = {}
            /\ channels_[d].holders = 0

\* The idle timeout closes a channel that no transaction and no holder
\* uses: it terminates no transaction.
TimeoutClosesUnused ==
    Runs("OnIdleChannelTimedOut") /\ ReleasesMatched(op'.destination) =>
        /\ BoundTo(Members, op'.destination) = {}
        /\ channels_[op'.destination].holders = 0
        /\ CallsOfType(events', "ClientTransaction::Close") = {}
        /\ CallsOfType(events', "ServerTransaction::Close") = {}
        /\ client_transactions_' = client_transactions_
        /\ server_transactions_' = server_transactions_

\* C37: provided the external holders call ReleaseChannel for a destination
\* no more often than they called RequestChannel for it, the idle timer of
\* a context is running only in states where the reference count is zero
\* and the transaction set of the context is empty, so the idle timeout
\* never closes a channel that still has a registered transaction or an
\* external holder.
C37_IdleTimerOnlyWhenUnused ==
    []TimerOnlyWhenUnused /\ [][TimeoutClosesUnused]_vars

\* The last transaction of a context that no holder uses terminated, and
\* the idle timer runs.
C37_Witness ==
    /\ op.name = "OnTransactionTerminated"
    /\ op.destination \in DOMAIN channels_
    /\ channels_[op.destination].timer_
    /\ channels_[op.destination].holders = 0
    /\ channels_[op.destination].connected

\* Without the proviso: after a ReleaseChannel that matched no
\* RequestChannel the idle timer runs on a context that a transaction uses.
TimerRunsWithTransaction ==
    \E d \in DOMAIN channels_ :
        channels_[d].timer_ /\ channels_[d].transactions_ # {}

---------------------------------------------------------------------------
(* C38: what becomes of the channel once the decision on a certificate      *)
(* error is known.                                                          *)

\* The handler that is about to return knows the decision: the error
\* handler answered at once, with OK or with an error, or it completed
\* later; without a handler factory there is nothing to wait for.
DecisionKnown ==
    \/ /\ Runs("OnSSLCertificateError")
       /\ ssl_cert_error_handler_factory_ => op'.result # ERR_IO_PENDING
    \/ Runs("OnSSLCertErrorTransactionComplete")

\* The handshake of the channel of `destination` was started again and the
\* context is kept.
Reconnecting(destination) ==
    /\ \E i \in CallsOf(events', "Channel::ReconnectIgnoringLastError",
                         destination)
                \cup CallsOf(events', "Channel::ReconnectWithCertificate",
                             destination) :
          events'[i].arg = ERR_IO_PENDING
    /\ ChannelKept(destination)

\* C38: after OnSSLCertificateError for a channel, once the decision of the
\* handler is known (returned at once or completed later, with success or
\* with an error code), the channel is either being reconnected with its
\* context kept, or its context is destroyed, the channel closed and
\* OnChannelClosed on its way to the delegate; the context is never left
\* registered with neither a reconnect in progress nor a close.
C38_ReconnectedOrClosed ==
    [][DecisionKnown /\ op'.destination \in DOMAIN channels_
          => \/ Reconnecting(op'.destination)
             \/ ChannelDismissed(op'.destination)]_vars

\* What holds: the same for every decision but an error that
\* HandleSSLCertError returns at once.
ReconnectedOrClosedUnlessErrorAtOnce ==
    [][DecisionKnown /\ op'.destination \in DOMAIN channels_
          => \/ Reconnecting(op'.destination)
             \/ ChannelDismissed(op'.destination)
             \/ /\ Runs("OnSSLCertificateError")
                /\ ssl_cert_error_handler_factory_
                /\ op'.result \notin {OK, ERR_IO_PENDING}
                /\ MembersUnchanged
                /\ posted_' = posted_
                /\ Len(events') = 1]_vars

\* HandleSSLCertError returned an error at once: the context stays, no
\* handshake is started and nothing is closed.
LeftAfterErrorAtOnce ==
    /\ op.name = "OnSSLCertificateError"
    /\ ssl_cert_error_handler_factory_
    /\ op.result = ERR_FAILED
    /\ op.destination \in DOMAIN channels_
    /\ ~channels_[op.destination].connected
    /\ Len(events) = 1
    /\ posted_ = <<>>

\* The handler completed later with an error, and the attempt was
\* dismissed.
DismissedAfterLateError ==
    /\ op.name = "OnSSLCertErrorTransactionComplete"
    /\ op.result = ERR_FAILED
    /\ op.destination \notin DOMAIN channels_
    /\ CallsOf(events, "Channel::Close", op.destination) # {}

---------------------------------------------------------------------------
(* C39: DismissLastConnectionAttempt.                                       *)

\* A handler that runs returns, and the message loop runs the tasks it
\* holds: a task that waits is run between two handlers, however many
\* handlers run before it.
DismissSpec ==
    Init /\ [][ShutdownNext]_vars /\ WF_vars(Returned) /\ SF_vars(PostedTask)

\* DismissLastConnectionAttempt for a destination that has a context.
DismissOfContext ==
    LET d == op'.destination
        bound == BoundTo(Members, d)
    IN  /\ op'.ret = OK
        /\ ChannelDismissed(d)
        /\ channels_' = [x \in DOMAIN channels_ \ {d} |-> channels_[x]]
        /\ DOMAIN client_transactions_' = DOMAIN client_transactions_ \ bound
        /\ DOMAIN server_transactions_' = DOMAIN server_transactions_ \ bound
        /\ \A id \in bound :
              Cardinality({i \in DOMAIN events' :
                  /\ events'[i].type \in {"ClientTransaction::Close",
                                          "ServerTransaction::Close"}
                  /\ events'[i].arg = id}) = 1
        /\ CallsOfDelegate(events') = {}

\* DismissLastConnectionAttempt for a destination that has no context.
DismissOfNothing ==
    /\ op'.ret = ERR_CONNECTION_CLOSED
    /\ MembersUnchanged
    /\ events' = <<>>
    /\ posted_' = posted_

\* The task of a dismissal tells the delegate of the close of its
\* destination, once, and leaves the queue.
TaskTellsOnce ==
    /\ Len(events') = 1
    /\ events'[1].type = "Delegate::OnChannelClosed"
    /\ events'[1].destination = Head(posted_)
    /\ posted_' = Tail(posted_)
    /\ MembersUnchanged

\* C39: DismissLastConnectionAttempt for a destination with a channel
\* context destroys the context, terminating the transactions registered
\* with it, closes the channel, returns OK and delivers OnChannelClosed to
\* the delegate exactly once, as a posted task and not before the call
\* returns; for a destination with no context it returns
\* ERR_CONNECTION_CLOSED, changes no state and delivers no notification.
C39_Dismiss ==
    /\ [][ /\ Runs("DismissLastConnectionAttempt") =>
                 IF op'.destination \in DOMAIN channels_
                 THEN DismissOfContext ELSE DismissOfNothing
           /\ Runs("PostedTask") => TaskTellsOnce ]_vars
    /\ \A d \in Destinations :
          (\E i \in DOMAIN posted_ : posted_[i] = d)
              ~> (op.name = "PostedTask" /\ op.destination = d)

\* C39, witness: a connected channel with a transaction was dismissed; the
\* transaction is gone and the task waits.
C39_Witness ==
    /\ op.name = "DismissLastConnectionAttempt"
    /\ op.ret = OK
    /\ posted_ = <<op.destination>>
    /\ \E i \in DOMAIN events :
          events[i].type \in {"ClientTransaction::Close",
                              "ServerTransaction::Close"}

\* A dismissal found no context.
DismissedNothing ==
    /\ op.name = "DismissLastConnectionAttempt"
    /\ op.ret = ERR_CONNECTION_CLOSED

=============================================================================
